---- MODULE Spec2Model ----
(***************************************************************************)
(* A model of the sqlair query preprocessor and row binder.                *)
(*                                                                         *)
(* Go strings are modelled as sequences of one-character strings; offsets  *)
(* are the 0-based byte offsets of the Go code (At(s, i) is s[i]).         *)
(*                                                                         *)
(* The pure functions of the package (parseNames, expandRecords, ...) are  *)
(* exercised by small specifications that draw an input in Init and apply  *)
(* the function in one step (variables fnIn, fnOut, pc).  The Querier      *)
(* itself is the state machine Spec.                                       *)
(***************************************************************************)
EXTENDS Integers, Sequences, FiniteSets, TLC

VARIABLES
    pc,           \* position of the current specification ("input", "done", "api")
    fnIn,         \* input of the pure function under study
    fnOut,        \* its result
    reflectCache, \* ReflectCache.cache: type name -> cached ReflectInfo
    stmtCache,    \* statementCache.cache: statement -> cachedStmt
    hook,         \* Querier.hook
    queries,      \* the Query values handed out by ForOne
    dests,        \* the caller's destinations: destination -> column -> value
    events,       \* what the last call did to the hook and the driver, in order
    lastCall,     \* what the last operation was and what it returned
    copy          \* the Querier that Copy returned, once there is one

vars == <<pc, fnIn, fnOut, reflectCache, stmtCache, hook, queries, dests,
          events, lastCall, copy>>

querierVars == <<reflectCache, stmtCache, hook, queries, dests, events, lastCall,
                 copy>>

(***************************************************************************)
(* Strings                                                                 *)
(***************************************************************************)

\* s[i] of Go, 0-based.
At(s, i) == s[i + 1]

\* s[i:] of Go.
From(s, i) == SubSeq(s, i + 1, Len(s))

\* s[:i] of Go.
Upto(s, i) == SubSeq(s, 1, i)

\* The characters of the model in ascending byte order; Go compares strings
\* byte by byte.
ByteOrder ==
    <<" ", "$", "&", ")", "*", ",", "-", ".", "0", "1", "2", ":", ";", "=",
      "?", "@", "A", "I", "N", "O", "P", "R", "S", "T", "_", "a", "b", "c",
      "f", "n", "p", "r", "s", "x", "{", "}">>

Ord(c) == CHOOSE k \in 1..Len(ByteOrder) : ByteOrder[k] = c

RECURSIVE StrLess(_, _)
\* a < b on Go strings.
StrLess(a, b) ==
    IF b = <<>> THEN FALSE
    ELSE IF a = <<>> THEN TRUE
    ELSE IF Head(a) # Head(b) THEN Ord(Head(a)) < Ord(Head(b))
    ELSE StrLess(Tail(a), Tail(b))

RECURSIVE Join(_, _)
\* strings.Join(list, sep)
Join(list, sep) ==
    IF list = <<>> THEN <<>>
    ELSE IF Len(list) = 1 THEN list[1]
    ELSE list[1] \o sep \o Join(Tail(list), sep)

\* strings.HasPrefix(s, p)
HasPrefix(s, p) == Len(s) >= Len(p) /\ SubSeq(s, 1, Len(p)) = p

RECURSIVE IndexOf(_, _)
\* strings.Index(s, sub): the first offset at which sub occurs in s, or -1.
IndexOf(s, sub) ==
    IF HasPrefix(s, sub) THEN 0
    ELSE IF s = <<>> THEN -1
    ELSE LET k == IndexOf(Tail(s), sub) IN IF k = -1 THEN -1 ELSE k + 1

RECURSIVE Split(_, _)
\* strings.Split(s, sep) for a non-empty separator.
Split(s, sep) ==
    LET k == IndexOf(s, sep) IN
    IF k = -1 THEN <<s>>
    ELSE <<Upto(s, k)>> \o Split(From(s, k + Len(sep)), sep)

RECURSIVE insertString(_, _)
\* Insert x after the elements of the sorted list that are not greater.
insertString(list, x) ==
    IF list = <<>> THEN <<x>>
    ELSE IF StrLess(x, Head(list)) THEN <<x>> \o list
    ELSE <<Head(list)>> \o insertString(Tail(list), x)

RECURSIVE sortStrings(_)
\* sort.Strings; the few elements the model sorts are sorted by insertion,
\* as Go does for slices of fewer than seven elements.
sortStrings(list) ==
    IF list = <<>> THEN <<>>
    ELSE insertString(sortStrings(SubSeq(list, 1, Len(list) - 1)),
                      list[Len(list)])

(***************************************************************************)
(* Named parameters                                                        *)
(***************************************************************************)

Letters == {"a", "b", "c", "f", "n", "p", "r", "s", "x",
            "A", "I", "N", "O", "P", "R", "S", "T"}
Digits == {"0", "1", "2"}

alphaNumeric(a) == a \in Letters \/ a \in Digits \/ a = "_"

numeric(a) == a \in Digits

\* The keys of the prefixes map.
prefixes == {":", "@", "$", "?"}

\* prefixes[r](a)
predicate(r, a) == IF r = "?" THEN numeric(a) ELSE alphaNumeric(a)

\* unicode.IsSpace
IsSpace(c) == c \in {" ", "\n", "\t"}

isNameTerminator(a) == IsSpace(a) \/ a \in {",", ";", "=", ")"}

RECURSIVE IndexAny(_, _)
\* The smallest offset of s holding a character of the set, or -1.
IndexAny(s, set) ==
    IF s = <<>> THEN -1
    ELSE IF Head(s) \in set THEN 0
    ELSE LET k == IndexAny(Tail(s), set) IN IF k = -1 THEN -1 ELSE k + 1

indexOfInputNamedArgs(stmt) == IndexAny(stmt, prefixes)

RECURSIVE readName(_, _, _, _)
\* The inner loop of parseNames: consume the runes of a name from offset i.
readName(stmt, r, i, name) ==
    IF i >= Len(stmt) THEN [i |-> i, name |-> name, err |-> FALSE]
    ELSE IF predicate(r, At(stmt, i))
         THEN readName(stmt, r, i + 1, name \o <<At(stmt, i)>>)
    ELSE IF isNameTerminator(At(stmt, i))
         THEN [i |-> i, name |-> name, err |-> FALSE]
    ELSE [i |-> i, name |-> name, err |-> TRUE]

\* A jump that forgets to step back onto the prefix.
nextNameOffsetSkipping(i, index) == i + index + 1

\* i += (index - 1), followed by the i++ of the loop.
nextNameOffset(i, index) == i + (index - 1) + 1

\* '?' followed by a terminator is skipped only when a rune follows it.
isBarePlaceholder(stmt, i) ==
    At(stmt, i) = "?" /\ i + 1 < Len(stmt) /\ isNameTerminator(At(stmt, i + 1))

RECURSIVE scanNames(_, _, _)
\* The outer loop of parseNames, entered with loop variable i.
scanNames(stmt, i, names) ==
    IF i >= Len(stmt) THEN [names |-> names, err |-> FALSE]
    ELSE IF At(stmt, i) \notin prefixes THEN scanNames(stmt, i + 1, names)
    ELSE IF isBarePlaceholder(stmt, i) THEN scanNames(stmt, i + 1, names)
    ELSE
      LET rn == readName(stmt, At(stmt, i), i + 1, <<>>)
          names2 == Append(names, [prefix |-> At(stmt, i), name |-> rn.name])
          index == indexOfInputNamedArgs(From(stmt, rn.i))
      IN  IF rn.err THEN [names |-> <<>>, err |-> TRUE]
          ELSE IF rn.i >= Len(stmt) THEN [names |-> names2, err |-> FALSE]
          ELSE IF index = -1 THEN [names |-> names2, err |-> FALSE]
          ELSE scanNames(stmt, nextNameOffset(rn.i, index), names2)

RECURSIVE insertName(_, _)
insertName(list, x) ==
    IF list = <<>> THEN <<x>>
    ELSE IF StrLess(x.name, Head(list).name) THEN <<x>> \o list
    ELSE <<Head(list)>> \o insertName(Tail(list), x)

RECURSIVE sortNames(_)
\* sort.Slice(names, names[i].name < names[j].name), by insertion as Go does
\* for slices of fewer than seven elements.
sortNames(names) ==
    IF names = <<>> THEN <<>>
    ELSE insertName(sortNames(SubSeq(names, 1, Len(names) - 1)),
                    names[Len(names)])

parseNames(stmt, offset) ==
    LET res == scanNames(stmt, offset, <<>>) IN
    IF res.err THEN res
    ELSE [names |-> sortNames(res.names), err |-> FALSE]

(***************************************************************************)
(* Type reflector                                                          *)
(*                                                                         *)
(* A Go value is [type, ref]: the name of its type and what it holds or    *)
(* points to.  GoType gives the declaration of each type of the model.     *)
(***************************************************************************)

\* A Go value of the type holding (or pointing to) ref.
Value(type, ref) == [type |-> type, ref |-> ref]

StructField(name, tag) == [Name |-> name, Tag |-> tag]

\* The types of the model:
\*   type P struct { A int `db:"a"`; N int `db:"n"` }
\*   type R struct { N int `db:"n"` }
\*   type O struct { N int `db:"n,omitempty"` }
\*   type U struct { N int }
\*   type X struct { N int `db:"n,b"` }
\*   int, string, []int, []P, map[string]interface{}, map[string]int,
\*   map[int]interface{}
GoType(t) ==
    CASE t = "P" -> [kind |-> "struct", Name |-> <<"P">>,
                     fields |-> <<StructField(<<"A">>, <<"a">>),
                                  StructField(<<"N">>, <<"n">>)>>]
      [] t = "R" -> [kind |-> "struct", Name |-> <<"R">>,
                     fields |-> <<StructField(<<"N">>, <<"n">>)>>]
      [] t = "O" -> [kind |-> "struct", Name |-> <<"O">>,
                     fields |-> <<StructField(<<"N">>,
                                     <<"n", ",", "o", "m", "i", "t", "e", "m",
                                       "p", "t", "y">>)>>]
      [] t = "U" -> [kind |-> "struct", Name |-> <<"U">>,
                     fields |-> <<StructField(<<"N">>, <<>>)>>]
      [] t = "X" -> [kind |-> "struct", Name |-> <<"X">>,
                     fields |-> <<StructField(<<"N">>, <<"n", ",", "b">>)>>]
      [] t = "int" -> [kind |-> "int"]
      [] t = "string" -> [kind |-> "string"]
      [] t = "slice" -> [kind |-> "slice", elem |-> "int"]
      [] t = "sliceP" -> [kind |-> "slice", elem |-> "P"]
      [] t = "mapIface" -> [kind |-> "map", keyString |-> TRUE, elemIface |-> TRUE]
      [] t = "mapInt" -> [kind |-> "map", keyString |-> TRUE, elemIface |-> FALSE]
      [] t = "mapIntKey" -> [kind |-> "map", keyString |-> FALSE, elemIface |-> TRUE]

\* unicode.ToLower on the letters of the model.
LowerRune(c) ==
    CASE c = "A" -> "a" [] c = "I" -> "i" [] c = "N" -> "n" [] c = "O" -> "o"
      [] c = "P" -> "p" [] c = "R" -> "r" [] c = "S" -> "s" [] c = "T" -> "t"
      [] OTHER -> c

\* strings.ToLower
ToLower(s) == [k \in 1..Len(s) |-> LowerRune(s[k])]

parseTag(tag) ==
    LET options == Split(tag, <<",">>) IN
    IF tag = <<>>
    THEN [err |-> "unexpected empty tag", Name |-> <<>>, OmitEmpty |-> FALSE]
    ELSE IF Len(options) = 2
    THEN IF ToLower(options[2]) # <<"o", "m", "i", "t", "e", "m", "p", "t", "y">>
         THEN [err |-> "unexpected tag value", Name |-> <<>>, OmitEmpty |-> FALSE]
         ELSE [err |-> "", Name |-> options[1], OmitEmpty |-> TRUE]
    ELSE IF Len(options) = 1
    THEN [err |-> "", Name |-> options[1], OmitEmpty |-> FALSE]
    ELSE [err |-> "", Name |-> <<>>, OmitEmpty |-> FALSE]

RECURSIVE reflectFields(_, _, _)
\* The loop of Reflect over the fields of a struct type from position i on.
reflectFields(fields, i, acc) ==
    IF i > Len(fields) THEN [err |-> "", Fields |-> acc]
    ELSE
      LET tag == parseTag(fields[i].Tag)
          name == IF tag.Name = <<>> THEN ToLower(fields[i].Name) ELSE tag.Name
          entry == [Name |-> fields[i].Name,
                    Tag |-> [Name |-> tag.Name, OmitEmpty |-> tag.OmitEmpty]]
      IN  IF tag.err # "" THEN [err |-> tag.err, Fields |-> <<>>]
          ELSE reflectFields(fields, i + 1,
                 [c \in DOMAIN acc \cup {name} |->
                    IF c = name THEN entry ELSE acc[c]])

\* reflect.Reflect of a (dereferenced) value: a ReflectStruct
\* [kind, Name, Fields, Value] for a struct, where Fields maps each column
\* name to its field and the field of column c is the location <<Value, c>>,
\* and a ReflectValue [kind, Value] otherwise.
Reflect(value) ==
    LET decl == GoType(value.type)
        res == reflectFields(decl.fields, 1, <<>>)
    IN  IF decl.kind # "struct"
        THEN [err |-> "", info |-> [kind |-> decl.kind, Value |-> value.ref]]
        ELSE IF res.err # "" THEN [err |-> res.err, info |-> [kind |-> "none"]]
        ELSE [err |-> "",
              info |-> [kind |-> "struct", Name |-> decl.Name,
                        Fields |-> res.Fields, Value |-> value.ref]]

\* The body of ReflectCache.Reflect: the cached descriptor of the value's
\* type when there is one, the descriptor of the value otherwise.
cachedReflect(cache, value) ==
    IF value.type \in DOMAIN cache
    THEN [err |-> "", info |-> cache[value.type]]
    ELSE Reflect(value)

\* The cache after ReflectCache.Reflect(value).
cacheAfterReflect(cache, value) ==
    IF value.type \in DOMAIN cache \/ Reflect(value).err # "" THEN cache
    ELSE [t \in DOMAIN cache \cup {value.type} |->
            IF t = value.type THEN Reflect(value).info ELSE cache[t]]

(***************************************************************************)
(* Lexer                                                                   *)
(*                                                                         *)
(* A Lexer is [input, char, position, readPosition]; the rune 0 that marks *)
(* the end of the input is the empty string.  A Token is [Type, Literal,   *)
(* Pos], Pos being the offset of its Position.                             *)
(***************************************************************************)

NewLexer(input) ==
    [input |-> input, char |-> "", position |-> 0, readPosition |-> 0]

ReadNext(l) ==
    [l EXCEPT !.char = IF l.readPosition >= Len(l.input) THEN ""
                       ELSE At(l.input, l.readPosition),
              !.position = l.readPosition,
              !.readPosition = l.readPosition + 1]

PeekN(l, n) ==
    IF l.readPosition + n >= Len(l.input) THEN ""
    ELSE At(l.input, l.readPosition + n)

Peek(l) == PeekN(l, 0)

isLetter(char) == char \in Letters \/ char = "_" \/ char = "*"

isDigit(char) == char \in Digits

isQuote(char) == char = "\""

MakeToken(tokenType, char) == [Type |-> tokenType, Literal |-> <<char>>, Pos |-> 0]

tokenMap ==
    [c \in {"(", ")", "[", "]", ",", "&", "."} |->
       CASE c = "(" -> "LPAREN" [] c = ")" -> "RPAREN" [] c = "[" -> "LBRACKET"
         [] c = "]" -> "RBRACKET" [] c = "," -> "COMMA" [] c = "&" -> "BITAND"
         [] c = "." -> "PERIOD"]

RECURSIVE skipWhitespace(_)
skipWhitespace(l) ==
    IF IsSpace(l.char)
    THEN [l |-> skipWhitespace(ReadNext(l)).l, skipped |-> TRUE]
    ELSE [l |-> l, skipped |-> FALSE]

RECURSIVE identifierEnd(_)
\* The loop of readIdentifier.
identifierEnd(l) ==
    IF isLetter(l.char) \/ isDigit(l.char) \/ l.char = "-"
    THEN identifierEnd(ReadNext(l))
    ELSE l

readIdentifier(l) ==
    LET end == identifierEnd(l)
    IN  [l |-> end, literal |-> SubSeq(l.input, l.position + 1, end.position)]

RECURSIVE numberLoop(_, _)
\* The loop of readNumber.
numberLoop(l, ret) ==
    IF isDigit(l.char) \/ l.char = "."
    THEN IF l.char = "." /\ Peek(l) = "." THEN [l |-> l, literal |-> ret]
         ELSE numberLoop(ReadNext(l), Append(ret, l.char))
    ELSE [l |-> l, literal |-> ret]

readNumber(l) == numberLoop(ReadNext(l), <<l.char>>)

RECURSIVE stringLoop(_, _, _)
\* The loop of readString.
stringLoop(l, r, ret) ==
    LET next == ReadNext(l) IN
    IF next.char = "\n" \/ next.char = ""
    THEN [l |-> next, literal |-> <<>>, err |-> TRUE]
    ELSE IF next.char = r
    THEN [l |-> ReadNext(next), literal |-> ret, err |-> FALSE]
    ELSE stringLoop(next, r, Append(ret, next.char))

readString(l, r) == stringLoop(l, r, <<>>)

\* The token of the given type for what a read function returned.
runesToken(tokenType, read) ==
    [l |-> read.l,
     tok |-> [Type |-> tokenType, Literal |-> read.literal, Pos |-> 0]]

\* The end of readRunesToken: l.ReadNext(), then an UNKNOWN token of the
\* rune that is then current.
unknownToken(l) ==
    [l |-> ReadNext(l), tok |-> MakeToken("UNKNOWN", ReadNext(l).char)]

\* The isQuote case of readRunesToken, given what readString returned.
stringToken(read) ==
    IF ~read.err THEN runesToken("STRING", read) ELSE unknownToken(read.l)

readRunesToken(l) ==
    IF l.char = ""
    THEN [l |-> l, tok |-> [Type |-> "EOF", Literal |-> <<>>, Pos |-> 0]]
    ELSE IF isDigit(l.char) THEN runesToken("INT", readNumber(l))
    ELSE IF isLetter(l.char) THEN runesToken("IDENT", readIdentifier(l))
    ELSE IF isQuote(l.char) THEN stringToken(readString(l, l.char))
    ELSE unknownToken(l)

\* The ReadNext that follows skipWhitespace in NextToken.
afterWhitespace(l) == ReadNext(l)

\* tok.Pos = pos
tokenAt(pos, read) == [l |-> read.l, tok |-> [read.tok EXCEPT !.Pos = pos]]

\* NextToken from the lexer l, ws being what skipWhitespace returned.
nextTokenAfter(l, ws) ==
    tokenAt(l.position,
            IF ws.skipped
            THEN [l |-> afterWhitespace(ws.l), tok |-> MakeToken("SEPARATOR", " ")]
            ELSE IF l.char \in DOMAIN tokenMap
            THEN [l |-> ReadNext(l), tok |-> MakeToken(tokenMap[l.char], l.char)]
            ELSE readRunesToken(l))

NextToken(l) == nextTokenAfter(l, skipWhitespace(l))

(***************************************************************************)
(* Parser                                                                  *)
(*                                                                         *)
(* A Parser is [lex, errors, currentToken, peekToken, terminated].  An     *)
(* Expression is a record tagged by node; Nil is the nil Expression.  Each *)
(* parse function returns the parser it leaves and its expression.         *)
(***************************************************************************)

LOWEST == 0
INDEX == 1

\* The precedence map, LOWEST for a token type it does not hold.
precedence(tokenType) ==
    IF tokenType \in {"LBRACKET", "PERIOD"} THEN INDEX ELSE LOWEST

Nil == [node |-> "nil"]

\* The zero Token: its type is EOF.
ZeroToken == [Type |-> "EOF", Literal |-> <<>>, Pos |-> 0]

\* The parser with its peek token made current and nt read from the lexer.
advance(p, nt) ==
    [p EXCEPT !.currentToken = p.peekToken, !.peekToken = nt.tok, !.lex = nt.l]

nextToken(p) == advance(p, NextToken(p.lex))

NewParser(lex) ==
    nextToken(nextToken([lex |-> ReadNext(lex), errors |-> <<>>,
                         currentToken |-> ZeroToken, peekToken |-> ZeroToken,
                         terminated |-> FALSE]))

isPeekToken(p, t) == p.peekToken.Type = t

isCurrentToken(p, t) == p.currentToken.Type = t

currentPrecedence(p) == precedence(p.currentToken.Type)

peekPrecedence(p) == precedence(p.peekToken.Type)

addError(p, msg) == [p EXCEPT !.errors = Append(p.errors, msg)]

expectPeek(p, t) ==
    IF isPeekToken(p, t) THEN [p |-> nextToken(p), ok |-> TRUE]
    ELSE [p |-> addError(p, "expected token"), ok |-> FALSE]

parseIdentifier(p) ==
    [p |-> p, exp |-> [node |-> "Identifier", Token |-> p.currentToken]]

parseString(p) ==
    [p |-> p, exp |-> [node |-> "String", Token |-> p.currentToken]]

DigitValue(c) == CASE c = "0" -> 0 [] c = "1" -> 1 [] c = "2" -> 2 [] OTHER -> 0

RECURSIVE ParseInt(_)
\* strconv.ParseInt(literal, 10, 64) for the literals readNumber returns:
\* digits, and periods that make it fail.
ParseInt(literal) ==
    IF literal = <<>> THEN [value |-> 0, err |-> FALSE]
    ELSE IF ParseInt(SubSeq(literal, 1, Len(literal) - 1)).err
              \/ ~isDigit(literal[Len(literal)])
    THEN [value |-> 0, err |-> TRUE]
    ELSE [value |-> ParseInt(SubSeq(literal, 1, Len(literal) - 1)).value * 10
                      + DigitValue(literal[Len(literal)]),
          err |-> FALSE]

\* The Integer node for what ParseInt returned.
integerNode(p, n) ==
    [p |-> IF n.err THEN addError(p, "could not parse as integer") ELSE p,
     exp |-> [node |-> "Integer", Token |-> p.currentToken, Value |-> n.value]]

parseInteger(p) == integerNode(p, ParseInt(p.currentToken.Literal))

\* An expression and the result of expecting the token that closes it.
expectClose(parsed, t) == [parsed |-> parsed, closed |-> expectPeek(parsed.p, t)]

\* The end of parseGroup.
groupNode(c) ==
    [p |-> c.closed.p, exp |-> IF c.closed.ok THEN c.parsed.exp ELSE Nil]

\* The end of parseIndex.
indexNode(token, left, c) ==
    [p |-> c.closed.p,
     exp |-> IF c.closed.ok
             THEN [node |-> "IndexExpression", Token |-> token, Left |-> left,
                   Index |-> c.parsed.exp]
             ELSE Nil]

\* The end of parseAccessor.
accessorNode(left, right) ==
    [p |-> right.p,
     exp |-> [node |-> "AccessorExpression", Token |-> right.p.currentToken,
              Left |-> left, Right |-> right.exp]]

\* The end of parseExpressionStatement.
statementNode(token, parsed) ==
    [p |-> [parsed.p EXCEPT !.terminated =
                              parsed.p.terminated
                                \/ isPeekToken(parsed.p, "SEPARATOR")],
     exp |-> [node |-> "ExpressionStatement", Token |-> token,
              Expression |-> parsed.exp]]

RECURSIVE parseExpression(_, _)
RECURSIVE prefixOf(_)
RECURSIVE infixLoop(_, _)
RECURSIVE infixOf(_, _)
RECURSIVE parseGroup(_)
RECURSIVE parseIndex(_, _)
RECURSIVE parseIndexAt(_, _)
RECURSIVE parseAccessor(_, _)

\* p.prefix[p.currentToken.Type]()
prefixOf(p) ==
    CASE p.currentToken.Type = "IDENT" -> parseIdentifier(p)
      [] p.currentToken.Type = "INT" -> parseInteger(p)
      [] p.currentToken.Type = "STRING" -> parseString(p)
      [] p.currentToken.Type = "LPAREN" -> parseGroup(p)

parseExpression(p, prec) ==
    IF p.currentToken.Type \notin {"IDENT", "INT", "STRING", "LPAREN"}
    THEN IF p.terminated THEN [p |-> p, exp |-> Nil]
         ELSE IF p.currentToken.Type # "EOF"
         THEN [p |-> addError(p, "invalid character found"), exp |-> Nil]
         ELSE [p |-> p, exp |-> Nil]
    ELSE infixLoop(prefixOf(p), prec)

\* p.infix[p.currentToken.Type](leftExp)
infixOf(p, leftExp) ==
    IF p.currentToken.Type = "PERIOD" THEN parseAccessor(p, leftExp)
    ELSE parseIndex(p, leftExp)

\* The loop of parseExpression that runs the infix functions on the left
\* expression parsed so far.
infixLoop(left, prec) ==
    IF ~isPeekToken(left.p, "SEPARATOR") /\ prec < peekPrecedence(left.p)
    THEN infixLoop(infixOf(nextToken(left.p), left.exp), prec)
    ELSE left

parseGroup(p) ==
    groupNode(expectClose(parseExpression(nextToken(p), LOWEST), "RPAREN"))

\* parseIndex after its p.nextToken().
parseIndexAt(p, left) ==
    indexNode(p.currentToken, left,
              expectClose(parseExpression(p, LOWEST), "RBRACKET"))

parseIndex(p, left) == parseIndexAt(nextToken(p), left)

parseAccessor(p, left) ==
    accessorNode(left, parseExpression(nextToken(p), currentPrecedence(p)))

parseExpressionStatement(p) ==
    statementNode(p.currentToken, parseExpression(p, LOWEST))

RECURSIVE runLoop(_, _)
RECURSIVE runStep(_, _)

\* The loop of Parser.Run.
runLoop(p, expressions) ==
    IF p.currentToken.Type # "EOF" /\ ~p.terminated
    THEN runStep(parseExpressionStatement(p), expressions)
    ELSE [p |-> p, expressions |-> expressions]

\* The body of the loop, after parseExpressionStatement.
runStep(stmt, expressions) ==
    runLoop(nextToken(stmt.p), Append(expressions, stmt.exp))

\* What Run returns after its loop: the query expression, the consumed count
\* and the error.
runResult(done) ==
    IF Len(done.p.errors) > 0
    THEN [ast |-> Nil, consumed |-> done.p.lex.position, err |-> "syntax error"]
    ELSE [ast |-> [node |-> "QueryExpression", Expressions |-> done.expressions],
          consumed |-> done.p.currentToken.Pos, err |-> ""]

\* Parser.Run
Run(p) == runResult(runLoop(p, <<>>))

(***************************************************************************)
(* Record paths                                                            *)
(***************************************************************************)

tokenizeRecordPath(stmt, offset) == Run(NewParser(NewLexer(From(stmt, offset))))

ErrTooMany == "got more than one expression"

makeRecordPath(tokenType, value) == [tokenType |-> tokenType, value |-> value]

\* The paths of the right expression put before those of the left one.
appendPathsReversed(l, r) ==
    IF l.err # "" THEN [paths |-> <<>>, err |-> l.err]
    ELSE IF r.err # "" THEN [paths |-> <<>>, err |-> r.err]
    ELSE [paths |-> r.paths \o l.paths, err |-> ""]

\* append(left, index...), or the first error of the two.
appendPaths(l, r) ==
    IF l.err # "" THEN [paths |-> <<>>, err |-> l.err]
    ELSE IF r.err # "" THEN [paths |-> <<>>, err |-> r.err]
    ELSE [paths |-> l.paths \o r.paths, err |-> ""]

\* The QueryExpression case, given the paths of its first expression.
firstOf(num, first) ==
    IF first.err # "" THEN [paths |-> <<>>, err |-> first.err]
    ELSE IF num > 1 THEN [paths |-> first.paths, err |-> ErrTooMany]
    ELSE first

RECURSIVE compileRecordPathAST(_)
compileRecordPathAST(ast) ==
    CASE ast.node = "QueryExpression" ->
           IF Len(ast.Expressions) = 0 THEN [paths |-> <<>>, err |-> ""]
           ELSE firstOf(Len(ast.Expressions),
                        compileRecordPathAST(ast.Expressions[1]))
      [] ast.node = "ExpressionStatement" ->
           compileRecordPathAST(ast.Expression)
      [] ast.node = "IndexExpression" ->
           appendPaths(compileRecordPathAST(ast.Left),
                       compileRecordPathAST(ast.Index))
      [] ast.node = "AccessorExpression" ->
           appendPaths(compileRecordPathAST(ast.Left),
                       compileRecordPathAST(ast.Right))
      [] ast.node = "Identifier" ->
           [paths |-> <<makeRecordPath("ident", ast.Token.Literal)>>, err |-> ""]
      [] ast.node = "Integer" ->
           [paths |-> <<makeRecordPath("integer", ast.Value)>>, err |-> ""]
      [] ast.node = "String" ->
           [paths |-> <<makeRecordPath("string", ast.Token.Literal)>>, err |-> ""]
      [] ast.node \in {"Separator", "Empty"} -> [paths |-> <<>>, err |-> ""]
      [] OTHER ->
           [paths |-> <<>>, err |-> "syntax error: unexpected expression"]

\* The end of parseRecordPath, given the compiled paths.
pathsOf(tokens, compiled) ==
    IF compiled.err # ""
    THEN [paths |-> <<>>, consumed |-> -1, err |-> compiled.err]
    ELSE [paths |-> compiled.paths, consumed |-> tokens.consumed, err |-> ""]

\* parseRecordPath after tokenizeRecordPath.
compileTokens(tokens) ==
    IF tokens.err # ""
    THEN [paths |-> <<>>, consumed |-> tokens.consumed, err |-> tokens.err]
    ELSE pathsOf(tokens, compileRecordPathAST(tokens.ast))

parseRecordPath(stmt, offset) == compileTokens(tokenizeRecordPath(stmt, offset))

(***************************************************************************)
(* Statement compiler: collision map, aliases and record expansion         *)
(*                                                                         *)
(* A recordBinding is [name, prefix, fields, wildcard, start, end].        *)
(***************************************************************************)

AliasPrefix == <<"_", "p", "f", "x", "_">>

AliasSeparator == <<"_", "s", "f", "x", "_">>

RECURSIVE SetToSeq(_)
\* The elements of a set in some order (the order of a Go map iteration,
\* which every caller sorts away).
SetToSeq(set) ==
    IF set = {} THEN <<>>
    ELSE LET x == CHOOSE y \in set : TRUE IN <<x>> \o SetToSeq(set \ {x})

\* m[key] of a Go map of sets: the empty set for a missing key.
Lookup(m, key) == IF key \in DOMAIN m THEN m[key] ELSE {}

\* fields[field]: the entities (by position) that have the column.
entitiesWithField(entities, field) ==
    {k \in 1..Len(entities) : field \in DOMAIN entities[k].Fields}

fieldIntersections(entities) ==
    IF Len(entities) <= 1 THEN <<>>
    ELSE
      LET allFields == UNION {DOMAIN entities[k].Fields : k \in 1..Len(entities)}
          grouped == {f \in allFields :
                        Cardinality(entitiesWithField(entities, f)) > 1}
          owners == {entities[k].Name :
                        k \in {j \in 1..Len(entities) :
                                 DOMAIN entities[j].Fields \cap grouped # {}}}
      IN  [n \in owners |->
             {f \in grouped :
                \E k \in entitiesWithField(entities, f) : entities[k].Name = n}]

\* An alias for every prefixed column, colliding or not.
constructFieldNameAliasAlways(name, record, intersection) ==
    IF record.prefix = <<>> THEN name
    ELSE record.prefix \o <<".">> \o name
           \o <<" ", "A", "S", " ">> \o AliasPrefix \o record.prefix
           \o AliasSeparator \o name

constructFieldNameAlias(name, record, intersection) ==
    IF record.prefix = <<>> THEN name
    ELSE LET alias == IF name \in intersection
                      THEN <<" ", "A", "S", " ">> \o AliasPrefix
                             \o record.prefix \o AliasSeparator \o name
                      ELSE <<>>
         IN  record.prefix \o <<".">> \o name \o alias

\* An offset adjustment that forgets the length of the replaced span.
translateGrowOnly(f, expantion) == expantion

\* recordBinding.translate
translate(f, expantion) == expantion - (f.end - f.start)

\* The position of the first entity named as the record, 0 when there is none.
entityOf(record, entities) ==
    IF \E k \in 1..Len(entities) : entities[k].Name = record.name
    THEN CHOOSE k \in 1..Len(entities) :
           /\ entities[k].Name = record.name
           /\ \A j \in 1..(k - 1) : entities[j].Name # record.name
    ELSE 0

\* The names a record projects from its entity, each as its column token.
recordNames(record, entity, entityInter) ==
    LET projected == IF record.wildcard THEN DOMAIN entity.Fields ELSE record.fields
    IN  sortStrings(SetToSeq(
          {constructFieldNameAlias(name, record, entityInter) : name \in projected}))

RECURSIVE expandLoop(_, _, _, _, _, _)
\* The loop of expandRecords over the records from position k on; lists
\* collects the recordList of each record expanded so far.
expandLoop(stmt, records, entities, intersections, k, acc) ==
    IF k > Len(records)
    THEN [stmt |-> stmt, err |-> "", lists |-> acc.lists]
    ELSE
      LET record == records[k]
          e == entityOf(record, entities)
          entity == entities[e]
          names == recordNames(record, entity, Lookup(intersections, entity.Name))
          recordList == Join(names, <<",", " ">>)
          offset == acc.offset
      IN  IF e = 0 THEN [stmt |-> <<>>, err |-> "no entity found", lists |-> <<>>]
          ELSE IF ~record.wildcard /\ ~(record.fields \subseteq DOMAIN entity.Fields)
               THEN [stmt |-> <<>>, err |-> "field not found", lists |-> <<>>]
          ELSE IF names = <<>>
               THEN [stmt |-> <<>>, err |-> "no fields found", lists |-> <<>>]
          ELSE expandLoop(Upto(stmt, offset + record.start) \o recordList
                             \o From(stmt, offset + record.end),
                          records, entities, intersections, k + 1,
                          [offset |-> offset + translate(record, Len(recordList)),
                           lists |-> Append(acc.lists, recordList)])

expandRecords(stmt, records, entities, intersections) ==
    expandLoop(stmt, records, entities, intersections, 1,
               [offset |-> 0, lists |-> <<>>])

\* strings.IndexRune(stmt, '&')
indexOfRecordArgs(stmt) == IndexOf(stmt, <<"&">>)

RECURSIVE selectorScan(_, _, _)
\* The backwards loop of parseRecords that collects the selector before
\* offset k + 1.
selectorScan(stmt, k, selector) ==
    IF k < 0 THEN [selector |-> selector, err |-> FALSE]
    ELSE IF IsSpace(At(stmt, k))
    THEN IF Len(selector) > 0 THEN [selector |-> selector, err |-> FALSE]
         ELSE selectorScan(stmt, k - 1, selector)
    ELSE IF At(stmt, k) \in Letters
    THEN selectorScan(stmt, k - 1, <<At(stmt, k)>> \o selector)
    ELSE [selector |-> selector, err |-> TRUE]

\* Whether parseRecordPath fails with an error other than ErrTooMany.
pathFails(path) == path.err \notin {"", ErrTooMany}

\* The checks parseRecords makes at a '&': the entity path after it, the AS
\* selector before it, the path that starts at offset 1.  "" when all pass.
recordError(entityPath, sel, tablePath) ==
    IF pathFails(entityPath) THEN entityPath.err
    ELSE IF sel.err THEN "expected selector"
    ELSE IF ToLower(sel.selector) # <<"a", "s">> THEN "expected AS selector"
    ELSE IF pathFails(tablePath) THEN tablePath.err
    ELSE ""

RECURSIVE recordsLoop(_, _)
RECURSIVE recordsStep(_, _, _)

\* The loop of parseRecords from offset i on; nothing is appended to records.
recordsLoop(stmt, i) ==
    IF i >= Len(stmt) THEN [records |-> <<>>, err |-> ""]
    ELSE IF At(stmt, i) # "&" THEN [records |-> <<>>, err |-> ""]
    ELSE recordsStep(stmt, i,
                     recordError(parseRecordPath(stmt, i + 1),
                                 selectorScan(stmt, i - 1, <<>>),
                                 parseRecordPath(stmt, 1)))

\* The end of the loop body: return the error, or go on.
recordsStep(stmt, i, err) ==
    IF err # "" THEN [records |-> <<>>, err |-> err]
    ELSE recordsLoop(stmt, i + 1)

parseRecords(stmt, offset) == recordsLoop(stmt, offset)

\* What compileStatement returns once the records are expanded.
compiledOf(parsed, expanded) ==
    IF expanded.err # ""
    THEN [stmt |-> <<>>, fields |-> <<>>, err |-> expanded.err]
    ELSE [stmt |-> expanded.stmt, fields |-> parsed.records, err |-> ""]

\* compileStatement after parseRecords.
expandParsed(stmt, entities, parsed) ==
    IF parsed.err # "" THEN [stmt |-> <<>>, fields |-> <<>>, err |-> parsed.err]
    ELSE compiledOf(parsed,
                    expandRecords(stmt, parsed.records, entities,
                                  fieldIntersections(entities)))

compileStatement(stmt, entities) ==
    IF indexOfRecordArgs(stmt) >= 0
    THEN expandParsed(stmt, entities, parseRecords(stmt, indexOfRecordArgs(stmt)))
    ELSE [stmt |-> stmt, fields |-> <<>>, err |-> ""]

(***************************************************************************)
(* Scan planner: routing the returned columns to destination fields        *)
(***************************************************************************)

\* The prefix and the real name embedded in a returned column name.  Go
\* panics (index out of range) when the alias prefix is not followed by a
\* separator.
decodeColumn(columnName) ==
    IF HasPrefix(columnName, AliasPrefix)
    THEN LET parts == Split(From(columnName, Len(AliasPrefix)), AliasSeparator)
         IN  IF Len(parts) < 2
             THEN [panic |-> TRUE, prefix |-> parts[1], name |-> <<>>]
             ELSE [panic |-> FALSE, prefix |-> parts[1], name |-> parts[2]]
    ELSE [panic |-> FALSE, prefix |-> <<>>, name |-> columnName]

\* A planner that accepts any entity for an aliased column.
bindingFoundAny(entity, prefix, fields) == TRUE

\* Whether a record binding ties the entity's type name to the prefix.
bindingFound(entity, prefix, fields) ==
    \E k \in 1..Len(fields) :
        fields[k].name = entity.Name /\ fields[k].prefix = prefix

\* The first entity that has the column and, for an aliased column, a
\* binding with its prefix; 0 when there is none.
claimingEntity(columnName, prefix, entities, fields) ==
    LET ok(k) == /\ columnName \in DOMAIN entities[k].Fields
                 /\ (prefix # <<>> => bindingFound(entities[k], prefix, fields))
    IN  IF \E k \in 1..Len(entities) : ok(k)
        THEN CHOOSE k \in 1..Len(entities) : ok(k) /\ \A j \in 1..(k - 1) : ~ok(j)
        ELSE 0

RECURSIVE mappingLoop(_, _, _, _, _)
\* The loop of structMapping over the columns from position i on.
mappingLoop(columns, entities, fields, i, columnar) ==
    IF i > Len(columns)
    THEN [columnar |-> columnar, err |-> "", panic |-> FALSE]
    ELSE
      LET d == decodeColumn(columns[i])
          e == claimingEntity(d.name, d.prefix, entities, fields)
      IN  IF d.panic THEN [columnar |-> <<>>, err |-> "", panic |-> TRUE]
          ELSE IF e = 0
               THEN [columnar |-> <<>>, err |-> "missing destination name",
                     panic |-> FALSE]
          ELSE mappingLoop(columns, entities, fields, i + 1,
                           Append(columnar, <<entities[e].Value, d.name>>))

\* Query.structMapping: one scan target, the location of a destination
\* field, per column.
structMapping(columns, entities, fields) ==
    mappingLoop(columns, entities, fields, 1, <<>>)

(***************************************************************************)
(* Argument assembler                                                      *)
(*                                                                         *)
(* An argument is a Go value [type, ref]: ref is the key-to-value function *)
(* of a map, the field-to-value function of a struct, the elements of a    *)
(* slice, the number of an int.  An untyped nil has type "nil".  A         *)
(* sql.NamedArg is [Name, Value].                                          *)
(***************************************************************************)

\* sql.Named
Named(name, value) == [Name |-> name, Value |-> value]

\* The position of the first binding whose name is not among the keys, 0
\* when every name is found: where the loop over the names stops.
firstMissing(names, keys) ==
    IF \E k \in 1..Len(names) : names[k].name \notin keys
    THEN CHOOSE k \in 1..Len(names) :
           /\ names[k].name \notin keys
           /\ \A j \in 1..(k - 1) : names[j].name \in keys
    ELSE 0

\* nameValues: one named argument per binding, in the order of the bindings.
nameValues(names, values) ==
    [k \in 1..Len(names) |->
       Named(names[k].name,
             IF names[k].name \in DOMAIN values THEN values[names[k].name]
             ELSE "zero")]

\* reflect.Type.ConvertibleTo(map[string]interface{}) for a map type.
convertMapStringInterface(arg) ==
    GoType(arg.type).keyString /\ GoType(arg.type).elemIface

\* The value of each column of a record argument.
recordColumns(arg, info) ==
    [c \in DOMAIN info.Fields |-> arg.ref[info.Fields[c].Name]]

\* The default case of constructInputNamedArgs, given what Reflect returned.
recordInputs(arg, names, ref) ==
    LET fail(msg) == [values |-> <<>>, err |-> msg, panic |-> FALSE]
    IN  IF ref.err # "" THEN fail(ref.err)
        ELSE IF ref.info.kind # "struct" THEN fail("kind not supported")
        ELSE IF firstMissing(names, DOMAIN ref.info.Fields) # 0
             THEN fail("field missing from type")
        ELSE [values |-> nameValues(names, recordColumns(arg, ref.info)),
              err |-> "", panic |-> FALSE]

constructInputNamedArgs(arg, names) ==
    LET decl == GoType(arg.type)
        fail(msg) == [values |-> <<>>, err |-> msg, panic |-> FALSE]
    IN  IF arg.type = "nil" THEN [values |-> <<>>, err |-> "", panic |-> TRUE]
        ELSE IF decl.kind = "map" /\ decl.keyString
        THEN IF ~convertMapStringInterface(arg) THEN fail("map type not supported")
             ELSE IF firstMissing(names, DOMAIN arg.ref) # 0
                  THEN fail("key missing from map")
             ELSE [values |-> nameValues(names, arg.ref), err |-> "",
                   panic |-> FALSE]
        ELSE IF decl.kind = "slice" THEN fail("slice not supported")
        ELSE recordInputs(arg, names, Reflect(arg))

\* An assembler that puts the named arguments first.
appendInputsFirst(args, inputs) == inputs \o args

\* The loop that appends each input to args.
appendInputs(args, inputs) == args \o inputs

\* The end of constructNamedArguments, given what constructInputNamedArgs
\* returned for the first argument.
argumentsWith(args, inputs) ==
    IF inputs.panic THEN [args |-> <<>>, err |-> "", panic |-> TRUE]
    ELSE IF inputs.err # "" THEN [args |-> <<>>, err |-> inputs.err, panic |-> FALSE]
    ELSE [args |-> appendInputs(Tail(args), inputs.values), err |-> "",
          panic |-> FALSE]

\* constructNamedArguments after parseNames.
argumentsFor(args, parsed) ==
    LET fail(msg) == [args |-> <<>>, err |-> msg, panic |-> FALSE]
    IN  IF parsed.err THEN fail("unexpected named argument found in statement")
        ELSE IF Len(args) = 0 /\ Len(parsed.names) > 0
        THEN fail("expected arguments for named parameters")
        ELSE IF Len(parsed.names) > 0 /\ Len(args) >= 1
        THEN argumentsWith(args, constructInputNamedArgs(args[1], parsed.names))
        ELSE [args |-> args, err |-> "", panic |-> FALSE]

constructNamedArguments(stmt, args) ==
    argumentsFor(args,
                 IF indexOfInputNamedArgs(stmt) >= 0
                 THEN parseNames(stmt, indexOfInputNamedArgs(stmt))
                 ELSE [names |-> <<>>, err |-> FALSE])

(***************************************************************************)
(* The Querier                                                             *)
(*                                                                         *)
(* The caller owns the destinations d1, d2 (of type P) and d3 (of type R); *)
(* dests holds, for each, the value of the field of each column.  A        *)
(* location is <<destination, column>>.  The caller also owns the slices   *)
(* s1, s2 (of type []P) and si (of type []int) and the map m1; dests holds *)
(* the elements of each slice and the entries of the map, and the struct   *)
(* that ForMany allocates for the element type P (vP).  A Query value is   *)
(* [entities, hook, plan], with the slices and their element descriptors   *)
(* (refSlice) when ForMany made it; queries keeps each with the            *)
(* destinations its ForOne or ForMany was given.                           *)
(* A driver result is [fail, columns, rows]: the step that fails ("none",  *)
(* "query", "columns", "scan" for the Scan of the last row, "rows" for     *)
(* rows.Err), the column names and the rows of the cursor.                 *)
(***************************************************************************)

Dests == {"d1", "d2", "d3"}

\* The caller's slices, map and scalar.
Slices == {"s1", "s2", "si"}
Maps == {"m1"}
Scalars == {"i1"}

\* reflect.New(base): the struct ForMany allocates for an element type.
Virtual(base) == IF base = "P" THEN "vP" ELSE "vi"

DestType(d) ==
    CASE d = "d3" -> "R"
      [] d \in {"s1", "s2"} -> "sliceP"
      [] d = "si" -> "slice"
      [] d = "m1" -> "mapIface"
      [] d \in {"vi", "i1"} -> "int"
      [] OTHER -> "P"

\* &d
Pointer(d) == Value(DestType(d), d)

\* The zero value of a struct type, by column.
ZeroOf(type) == [c \in DOMAIN Reflect(Value(type, "")).info.Fields |-> 0]

\* The zero value of a destination: no element, no entry, zeroed fields; a
\* scalar is a value at the empty path.
ZeroValue(d) ==
    IF GoType(DestType(d)).kind \in {"slice", "map"} THEN <<>>
    ELSE IF GoType(DestType(d)).kind # "struct" THEN [c \in {<<>>} |-> 0]
    ELSE ZeroOf(DestType(d))

\* The value of a variable that holds nothing yet.
None == [kind |-> "none"]

\* NewQuerier, and the caller's destinations zeroed.
QuerierInit ==
    /\ reflectCache = <<>>
    /\ stmtCache = <<>>
    /\ hook = "noop"
    /\ queries = <<>>
    /\ dests = [d \in Dests \cup Slices \cup Maps \cup {Virtual("P")} |->
                  ZeroValue(d)]
    /\ events = <<>>
    /\ lastCall = None
    /\ copy = None

RECURSIVE reflectValuesLoop(_, _, _, _)
RECURSIVE reflectedValue(_, _, _, _, _)

\* The loop of reflectValues from value i on.
reflectValuesLoop(cache, values, i, entities) ==
    IF i > Len(values) THEN [entities |-> entities, err |-> "", cache |-> cache]
    ELSE reflectedValue(cacheAfterReflect(cache, values[i]), values, i, entities,
                        cachedReflect(cache, values[i]))

\* The body of the loop, given what cache.Reflect returned and the cache it
\* left; the kinds of neighbours are compared from the third value on (i > 1
\* counting from 0).
reflectedValue(cache, values, i, entities, r) ==
    IF r.err # "" THEN [entities |-> <<>>, err |-> "reflect", cache |-> cache]
    ELSE IF i - 1 > 1 /\ entities[i - 1].kind # r.info.kind
    THEN [entities |-> <<>>, err |-> "expected all input values to be of the same kind",
          cache |-> cache]
    ELSE reflectValuesLoop(cache, values, i + 1, Append(entities, r.info))

reflectValues(cache, values) == reflectValuesLoop(cache, values, 1, <<>>)

\* Query{}
ZeroQuery == [entities |-> <<>>, hook |-> "nil", plan |-> "nil"]

\* ForOne after reflectValues.
forOneOf(h, values, rv) ==
    LET entities == rv.entities
        query(plan) == [entities |-> entities, hook |-> h, plan |-> plan]
        ret(q, err, panic) ==
            [query |-> q, err |-> err, panic |-> panic, cache |-> rv.cache]
    IN  IF rv.err # "" THEN ret(ZeroQuery, "", FALSE)
        ELSE IF Len(values) = 0 THEN ret(query("default"), "", FALSE)
        ELSE IF entities[1].kind = "struct"
        THEN IF \E k \in 1..Len(entities) : entities[k].kind # "struct"
             THEN ret(ZeroQuery, "", TRUE)
             ELSE ret(query("struct"), "", FALSE)
        ELSE IF entities[1].kind = "map"
        THEN IF Len(values) > 1
             THEN ret(ZeroQuery, "expected one map for query", FALSE)
             ELSE ret(query("map"), "", FALSE)
        ELSE ret(query("default"), "", FALSE)

\* What ForOne returns, and the reflect cache it leaves.
forOne(cache, h, values) == forOneOf(h, values, reflectValues(cache, values))

RECURSIVE refSliceLoop(_, _, _, _)
RECURSIVE refSliceOf(_, _, _, _, _)

\* The loop of ForMany over the entities from position i on: the descriptor
\* of a freshly allocated element of each slice, from the reflect cache.
refSliceLoop(cache, entities, i, acc) ==
    IF i > Len(entities) THEN [refSlice |-> acc, err |-> "", cache |-> cache]
    ELSE IF entities[i].kind # "slice"
    THEN [refSlice |-> <<>>, err |-> "expected slice", cache |-> cache]
    ELSE refSliceOf(cacheAfterReflect(cache,
                      Value(GoType(DestType(entities[i].Value)).elem,
                            Virtual(GoType(DestType(entities[i].Value)).elem))),
                    entities, i, acc,
                    cachedReflect(cache,
                      Value(GoType(DestType(entities[i].Value)).elem,
                            Virtual(GoType(DestType(entities[i].Value)).elem))))

\* The slice case of the loop, given what cache.Reflect returned for the
\* element and the cache it left.
refSliceOf(cache, entities, i, acc, element) ==
    IF element.err # ""
    THEN [refSlice |-> <<>>, err |-> "expected slice", cache |-> cache]
    ELSE IF element.info.kind # "struct"
    THEN [refSlice |-> <<>>, err |-> "expected slice T to be struct", cache |-> cache]
    ELSE refSliceLoop(cache, entities, i + 1,
                      Append(acc, [slice |-> entities[i].Value,
                                   element |-> element.info]))

\* A ForMany whose Query value has the hook of a new Querier.
forManyOfNoHook(h, rv, slices) ==
    IF rv.err # ""
    THEN [query |-> ZeroQuery, err |-> "", panic |-> FALSE, cache |-> rv.cache]
    ELSE IF slices.err # ""
    THEN [query |-> ZeroQuery, err |-> slices.err, panic |-> FALSE,
          cache |-> slices.cache]
    ELSE [query |-> [entities |-> rv.entities, hook |-> "noop", plan |-> "slice",
                     refSlice |-> slices.refSlice],
          err |-> "", panic |-> FALSE, cache |-> slices.cache]

\* ForMany after reflectValues and the loop over the entities.
forManyOf(h, rv, slices) ==
    IF rv.err # ""
    THEN [query |-> ZeroQuery, err |-> "", panic |-> FALSE, cache |-> rv.cache]
    ELSE IF slices.err # ""
    THEN [query |-> ZeroQuery, err |-> slices.err, panic |-> FALSE,
          cache |-> slices.cache]
    ELSE [query |-> [entities |-> rv.entities, hook |-> h, plan |-> "slice",
                     refSlice |-> slices.refSlice],
          err |-> "", panic |-> FALSE, cache |-> slices.cache]

\* ForMany of at least one value, given what reflectValues returned.
forManyReflected(h, rv) ==
    forManyOf(h, rv, IF rv.err # "" THEN [err |-> ""]
                     ELSE refSliceLoop(rv.cache, rv.entities, 1, <<>>))

\* What ForMany returns, and the reflect cache it leaves.
forMany(cache, h, values) ==
    IF Len(values) = 0
    THEN [query |-> ZeroQuery, err |-> "expected at least one argument",
          panic |-> FALSE, cache |-> cache]
    ELSE forManyReflected(h, reflectValues(cache, values))

HookEvent(h, sql) == [kind |-> "hook", hook |-> h, sql |-> sql]

DriverEvent(op, sql, args) == [kind |-> "driver", op |-> op, sql |-> sql, args |-> args]

\* tx.Query returned a rows cursor.
RowsEvent == [kind |-> "rows"]

CloseEvent == [kind |-> "close"]

\* A query that reports to the hook after the driver call.
queryHookAfter(q, stmt, args, drv) ==
    LET called == <<DriverEvent("Query", stmt, args)>>
                    \o (IF q.hook # "nil" THEN <<HookEvent(q.hook, stmt)>> ELSE <<>>)
    IN  IF drv.fail = "query"
        THEN [events |-> called, err |-> "driver: query", columns |-> <<>>]
        ELSE IF drv.fail = "columns"
        THEN [events |-> called \o <<RowsEvent, CloseEvent>>,
              err |-> "driver: column types", columns |-> <<>>]
        ELSE [events |-> Append(called, RowsEvent), err |-> "",
              columns |-> drv.columns]

\* Query.query: the hook, then tx.Query and rows.ColumnTypes.
query(q, stmt, args, drv) ==
    LET called == (IF q.hook # "nil" THEN <<HookEvent(q.hook, stmt)>> ELSE <<>>)
                    \o <<DriverEvent("Query", stmt, args)>>
    IN  IF drv.fail = "query"
        THEN [events |-> called, err |-> "driver: query", columns |-> <<>>]
        ELSE IF drv.fail = "columns"
        THEN [events |-> called \o <<RowsEvent, CloseEvent>>,
              err |-> "driver: column types", columns |-> <<>>]
        ELSE [events |-> Append(called, RowsEvent), err |-> "",
              columns |-> drv.columns]

RECURSIVE scanRow(_, _, _, _)
\* rows.Scan: the value of each column of the row stored at its target.
scanRow(mem, targets, row, i) ==
    IF i > Len(targets) THEN mem
    ELSE scanRow([mem EXCEPT ![targets[i][1]][targets[i][2]] = row[i]],
                 targets, row, i + 1)

RECURSIVE scanLoop(_, _, _, _)
\* The loop of scanOne from row k on.
scanLoop(mem, targets, drv, k) ==
    IF k > Len(drv.rows)
    THEN [mem |-> mem, err |-> IF drv.fail = "rows" THEN "driver: rows" ELSE ""]
    ELSE IF drv.fail = "scan" /\ k = Len(drv.rows)
    THEN [mem |-> mem, err |-> "driver: scan"]
    ELSE scanLoop(scanRow(mem, targets, drv.rows[k], 1), targets, drv, k + 1)

scanOne(mem, targets, drv) == scanLoop(mem, targets, drv, 1)

\* What an execute plan returns: the error or panic, what it did to the hook
\* and the driver, the destinations and the statement cache it leaves.
PlanResult(err, panic, ev, mem, cache) ==
    [err |-> err, panic |-> panic, events |-> ev, mem |-> mem, cache |-> cache]

\* A structScan that caches the statement whether or not compiling it
\* changed the text.
scanMappedAlways(stmt, drv, mem, cache, compiled, closed, mapping) ==
    LET scan == scanOne(mem, mapping.columnar, drv)
    IN  IF mapping.panic THEN PlanResult("", TRUE, closed, mem, cache)
        ELSE IF mapping.err # "" THEN PlanResult(mapping.err, FALSE, closed, mem, cache)
        ELSE IF scan.err # "" THEN PlanResult(scan.err, FALSE, closed, scan.mem, cache)
        ELSE PlanResult("", FALSE, closed, scan.mem,
               [t \in DOMAIN cache \cup {stmt} |->
                  IF t = stmt
                  THEN [stmt |-> compiled.stmt, fields |-> compiled.fields]
                  ELSE cache[t]])

\* The end of structScan, given the scan targets structMapping returned:
\* scanOne, then the statement cache.
scanMapped(stmt, drv, mem, cache, compiled, closed, mapping) ==
    LET scan == scanOne(mem, mapping.columnar, drv)
    IN  IF mapping.panic THEN PlanResult("", TRUE, closed, mem, cache)
        ELSE IF mapping.err # "" THEN PlanResult(mapping.err, FALSE, closed, mem, cache)
        ELSE IF scan.err # "" THEN PlanResult(scan.err, FALSE, closed, scan.mem, cache)
        ELSE PlanResult("", FALSE, closed, scan.mem,
               IF stmt # compiled.stmt
               THEN [t \in DOMAIN cache \cup {stmt} |->
                       IF t = stmt
                       THEN [stmt |-> compiled.stmt, fields |-> compiled.fields]
                       ELSE cache[t]]
               ELSE cache)

\* structScan once the statement is compiled: query, then structMapping.
runCompiled(q, stmt, args, drv, mem, cache, compiled) ==
    LET run == query(q, compiled.stmt, args, drv)
    IN  IF compiled.err # "" THEN PlanResult(compiled.err, FALSE, <<>>, mem, cache)
        ELSE IF run.err # "" THEN PlanResult(run.err, FALSE, run.events, mem, cache)
        ELSE scanMapped(stmt, drv, mem, cache, compiled,
                        Append(run.events, CloseEvent),
                        structMapping([i \in 1..Len(run.columns) |->
                                         run.columns[i].name],
                                      q.entities, compiled.fields))

structScan(q, stmt, args, drv, mem, cache) ==
    runCompiled(q, stmt, args, drv, mem, cache,
                IF stmt \in DOMAIN cache
                THEN [stmt |-> cache[stmt].stmt, fields |-> cache[stmt].fields,
                      err |-> ""]
                ELSE compileStatement(stmt, q.entities))

defaultScan(q, stmt, args, drv, mem, cache) ==
    LET run == query(q, stmt, args, drv)
        closed == Append(run.events, CloseEvent)
        columnar == [i \in 1..Len(run.columns) |-> <<q.entities[i].Value, <<>>>>]
        scan == scanOne(mem, columnar, drv)
    IN  IF run.err # "" THEN PlanResult(run.err, FALSE, run.events, mem, cache)
        ELSE IF Len(run.columns) # Len(q.entities)
        THEN PlanResult("number of entities does not match column length", FALSE,
                        closed, mem, cache)
        ELSE IF \E i \in 1..Len(run.columns) : q.entities[i].kind = "struct"
        THEN PlanResult("mixed entities not supported", FALSE, closed, mem, cache)
        ELSE PlanResult(scan.err, FALSE, closed, scan.mem, cache)

\* The database type names zeroScanType knows.
ScanTypes == {"TEXT", "INTEGER", "BOOL", "REAL", "NUMERIC", "BLOB"}

mapScan(q, stmt, args, drv, mem, cache) ==
    LET run == query(q, stmt, args, drv)
        closed == Append(run.events, CloseEvent)
        n == Len(run.columns)
        entity == q.entities[1]
        fresh == [r \in DOMAIN mem \cup {"columnar"} |->
                    IF r = "columnar" THEN [i \in 1..n |-> 0] ELSE mem[r]]
        scan == scanOne(fresh, [i \in 1..n |-> <<"columnar", i>>], drv)
        names == {run.columns[i].name : i \in 1..n}
        last(c) == CHOOSE i \in 1..n :
                     /\ run.columns[i].name = c
                     /\ \A j \in (i + 1)..n : run.columns[j].name # c
        entries == [c \in DOMAIN mem[entity.Value] \cup names |->
                      IF c \in names THEN scan.mem["columnar"][last(c)]
                      ELSE mem[entity.Value][c]]
    IN  IF run.err # "" THEN PlanResult(run.err, FALSE, run.events, mem, cache)
        ELSE IF \E i \in 1..n : run.columns[i].type \notin ScanTypes
        THEN PlanResult("", TRUE, closed, mem, cache)
        ELSE IF scan.err # "" THEN PlanResult(scan.err, FALSE, closed, mem, cache)
        ELSE PlanResult("", FALSE, closed,
                        [mem EXCEPT ![entity.Value] = entries], cache)

RECURSIVE appendElements(_, _, _)
\* The loop that appends the element of each slice to the slice.
appendElements(mem, refSlice, k) ==
    IF k > Len(refSlice) THEN mem
    ELSE appendElements([mem EXCEPT ![refSlice[k].slice] =
                                      Append(@, mem[refSlice[k].element.Value])],
                        refSlice, k + 1)

RECURSIVE sliceLoop(_, _, _, _, _)
\* The rows loop of sliceStructScan from row k on, mapping being what
\* structMapping returns in each iteration.  The descriptors the loop asks
\* the reflect cache for are always cached and are not used.
sliceLoop(mem, refSlice, mapping, drv, k) ==
    IF k > Len(drv.rows)
    THEN [mem |-> mem, panic |-> FALSE,
          err |-> IF drv.fail = "rows" THEN "driver: rows" ELSE ""]
    ELSE IF mapping.panic THEN [mem |-> mem, panic |-> TRUE, err |-> ""]
    ELSE IF mapping.err # "" THEN [mem |-> mem, panic |-> FALSE, err |-> mapping.err]
    ELSE IF drv.fail = "scan" /\ k = Len(drv.rows)
    THEN [mem |-> mem, panic |-> FALSE, err |-> "driver: scan"]
    ELSE sliceLoop(appendElements(scanRow(mem, mapping.columnar, drv.rows[k], 1),
                                  refSlice, 1),
                   refSlice, mapping, drv, k + 1)

\* A sliceStructScan that closes the cursor only when the rows loop succeeds.
sliceScannedLeaking(closed, cache, scan) ==
    PlanResult(scan.err, scan.panic,
               IF scan.err # "" THEN SubSeq(closed, 1, Len(closed) - 1) ELSE closed,
               scan.mem, cache)

\* sliceStructScan after the query, given what the rows loop did.
sliceScanned(closed, cache, scan) ==
    PlanResult(scan.err, scan.panic, closed, scan.mem, cache)

\* sliceStructScan once the statement is compiled.
sliceCompiled(q, args, drv, mem, cache, compiled) ==
    LET run == query(q, compiled.stmt, args, drv)
    IN  IF compiled.err # "" THEN PlanResult(compiled.err, FALSE, <<>>, mem, cache)
        ELSE IF run.err # "" THEN PlanResult(run.err, FALSE, run.events, mem, cache)
        ELSE sliceScanned(Append(run.events, CloseEvent), cache,
                          sliceLoop(mem, q.refSlice,
                                    structMapping([i \in 1..Len(run.columns) |->
                                                     run.columns[i].name],
                                                  [k \in 1..Len(q.refSlice) |->
                                                     q.refSlice[k].element],
                                                  compiled.fields),
                                    drv, 1))

\* sliceStructScan: the statement is compiled at each call.
sliceStructScan(q, stmt, args, drv, mem, cache) ==
    sliceCompiled(q, args, drv, mem, cache,
                  compileStatement(stmt, [k \in 1..Len(q.refSlice) |->
                                            q.refSlice[k].element]))

\* Query.Query after constructNamedArguments: the execute plan; a Query
\* value without a plan panics when the plan is called.
executePlan(q, stmt, drv, mem, cache, named) ==
    IF named.panic THEN PlanResult("", TRUE, <<>>, mem, cache)
    ELSE IF named.err # ""
    THEN PlanResult("constructing named arguments", FALSE, <<>>, mem, cache)
    ELSE IF q.plan = "struct" THEN structScan(q, stmt, named.args, drv, mem, cache)
    ELSE IF q.plan = "map" THEN mapScan(q, stmt, named.args, drv, mem, cache)
    ELSE IF q.plan = "default"
    THEN defaultScan(q, stmt, named.args, drv, mem, cache)
    ELSE IF q.plan = "slice"
    THEN sliceStructScan(q, stmt, named.args, drv, mem, cache)
    ELSE PlanResult("", TRUE, <<>>, mem, cache)

\* Query.Query
queryQuery(q, stmt, args, drv, mem, cache) ==
    executePlan(q, stmt, drv, mem, cache, constructNamedArguments(stmt, args))

\* An Exec that reports to the hook before it looks at the arguments.
execEventsEager(h, stmt, named) ==
    (IF h # "nil" THEN <<HookEvent(h, stmt)>> ELSE <<>>)
      \o (IF named.err = "" /\ ~named.panic
          THEN <<DriverEvent("Exec", stmt, named.args)>> ELSE <<>>)

\* What Querier.Exec does to the hook and the driver.
execEvents(h, stmt, named) ==
    IF named.err # "" \/ named.panic THEN <<>>
    ELSE (IF h # "nil" THEN <<HookEvent(h, stmt)>> ELSE <<>>)
           \o <<DriverEvent("Exec", stmt, named.args)>>

(***************************************************************************)
(* The operations of the API                                               *)
(***************************************************************************)

\* Querier.Hook
Hook(h) ==
    /\ hook' = h
    /\ events' = <<>>
    /\ lastCall' = [op |-> "Hook"]
    /\ UNCHANGED <<pc, fnIn, fnOut, reflectCache, stmtCache, queries, dests, copy>>

\* Querier.ForOne, the caller keeping the returned Query in a slot.
ForOne(slot, values) ==
    \E r \in {forOne(reflectCache, hook,
                     [k \in 1..Len(values) |-> Pointer(values[k])])} :
        /\ reflectCache' = r.cache
        /\ queries' = IF r.panic \/ r.err # "" THEN queries
                      ELSE [s \in DOMAIN queries \cup {slot} |->
                              IF s = slot
                              THEN [q |-> r.query, values |-> values,
                                    installed |-> hook]
                              ELSE queries[s]]
        /\ events' = <<>>
        /\ lastCall' = [op |-> "ForOne", slot |-> slot, values |-> values,
                        err |-> r.err, panic |-> r.panic]
        /\ UNCHANGED <<pc, fnIn, fnOut, stmtCache, hook, dests, copy>>

\* Querier.ForMany, the caller keeping the returned Query in a slot.
ForMany(slot, values) ==
    \E r \in {forMany(reflectCache, hook,
                      [k \in 1..Len(values) |-> Pointer(values[k])])} :
        /\ reflectCache' = r.cache
        /\ queries' = IF r.panic \/ r.err # "" THEN queries
                      ELSE [s \in DOMAIN queries \cup {slot} |->
                              IF s = slot
                              THEN [q |-> r.query, values |-> values,
                                    installed |-> hook]
                              ELSE queries[s]]
        /\ events' = <<>>
        /\ lastCall' = [op |-> "ForMany", slot |-> slot, values |-> values,
                        err |-> r.err, panic |-> r.panic]
        /\ UNCHANGED <<pc, fnIn, fnOut, stmtCache, hook, dests, copy>>

\* Query.Query on the Query value of a slot.
Query(slot, stmt, args, drv) ==
    /\ slot \in DOMAIN queries
    /\ \E r \in {queryQuery(queries[slot].q, stmt, args, drv, dests, stmtCache)} :
        /\ dests' = r.mem
        /\ stmtCache' = r.cache
        /\ events' = r.events
        /\ lastCall' = [op |-> "Query", slot |-> slot, stmt |-> stmt,
                        args |-> args, drv |-> drv,
                        values |-> queries[slot].values,
                        plan |-> queries[slot].q.plan,
                        err |-> r.err, panic |-> r.panic]
        /\ UNCHANGED <<pc, fnIn, fnOut, reflectCache, hook, queries, copy>>

\* Querier.Exec; fail tells whether tx.Exec returns an error.
Exec(stmt, args, fail) ==
    \E named \in {constructNamedArguments(stmt, args)} :
        /\ events' = execEvents(hook, stmt, named)
        /\ lastCall' = [op |-> "Exec", stmt |-> stmt, args |-> args,
                        err |-> IF named.err # "" THEN "constructing named arguments"
                                ELSE IF fail THEN "driver: exec" ELSE "",
                        panic |-> named.panic]
        /\ UNCHANGED <<pc, fnIn, fnOut, reflectCache, stmtCache, hook, queries,
                       dests, copy>>

\* A Copy that keeps the hook of the Querier it copies.
copyKeepingHook(q) == [reflect |-> q.reflect, hook |-> q.hook, stmtCache |-> <<>>]

\* What Querier.Copy returns for the Querier q = [reflect, hook, stmtCache]:
\* reflect names the reflect cache the Querier points to, the hook is a new
\* function that does nothing and the statement cache is new.
copyOf(q) == [reflect |-> q.reflect, hook |-> "noop", stmtCache |-> <<>>]

\* Querier.Copy, the caller keeping the returned Querier with the Query
\* values it will hand out.
Copy ==
    /\ copy = None
    /\ copy' = [querier |-> copyOf([reflect |-> "reflectCache", hook |-> hook,
                                   stmtCache |-> stmtCache]),
                queries |-> <<>>]
    /\ events' = <<>>
    /\ lastCall' = [op |-> "Copy"]
    /\ UNCHANGED <<pc, fnIn, fnOut, reflectCache, stmtCache, hook, queries, dests>>

\* Hook on the Querier that Copy returned.
CopyHook(h) ==
    /\ copy # None
    /\ copy' = [copy EXCEPT !.querier.hook = h]
    /\ events' = <<>>
    /\ lastCall' = [op |-> "Hook", on |-> "copy"]
    /\ UNCHANGED <<pc, fnIn, fnOut, reflectCache, stmtCache, hook, queries, dests>>

\* ForOne on the Querier that Copy returned; its reflect cache is the one
\* its reflect field names.
CopyForOne(slot, values) ==
    /\ copy # None
    /\ copy.querier.reflect = "reflectCache"
    /\ \E r \in {forOne(reflectCache, copy.querier.hook,
                        [k \in 1..Len(values) |-> Pointer(values[k])])} :
        /\ reflectCache' = r.cache
        /\ copy' = IF r.panic \/ r.err # "" THEN copy
                   ELSE [copy EXCEPT !.queries =
                           [s \in DOMAIN copy.queries \cup {slot} |->
                              IF s = slot
                              THEN [q |-> r.query, values |-> values,
                                    installed |-> copy.querier.hook]
                              ELSE copy.queries[s]]]
        /\ events' = <<>>
        /\ lastCall' = [op |-> "ForOne", slot |-> slot, on |-> "copy",
                        values |-> values, err |-> r.err, panic |-> r.panic]
        /\ UNCHANGED <<pc, fnIn, fnOut, stmtCache, hook, queries, dests>>

\* Query.Query on a Query value of the Querier that Copy returned.
CopyQuery(slot, stmt, args, drv) ==
    /\ copy # None
    /\ slot \in DOMAIN copy.queries
    /\ \E r \in {queryQuery(copy.queries[slot].q, stmt, args, drv, dests,
                            copy.querier.stmtCache)} :
        /\ dests' = r.mem
        /\ copy' = [copy EXCEPT !.querier.stmtCache = r.cache]
        /\ events' = r.events
        /\ lastCall' = [op |-> "Query", slot |-> slot, on |-> "copy",
                        stmt |-> stmt, args |-> args, drv |-> drv,
                        values |-> copy.queries[slot].values,
                        plan |-> copy.queries[slot].q.plan,
                        err |-> r.err, panic |-> r.panic]
        /\ UNCHANGED <<pc, fnIn, fnOut, reflectCache, stmtCache, hook, queries>>

\* Exec on the Querier that Copy returned.
CopyExec(stmt, args, fail) ==
    /\ copy # None
    /\ \E named \in {constructNamedArguments(stmt, args)} :
        /\ events' = execEvents(copy.querier.hook, stmt, named)
        /\ lastCall' = [op |-> "Exec", on |-> "copy", stmt |-> stmt, args |-> args,
                        err |-> IF named.err # "" THEN "constructing named arguments"
                                ELSE IF fail THEN "driver: exec" ELSE "",
                        panic |-> named.panic]
        /\ UNCHANGED <<pc, fnIn, fnOut, reflectCache, stmtCache, hook, queries,
                       dests, copy>>

(***************************************************************************)
(* Bounded inputs                                                          *)
(***************************************************************************)

\* All sequences over the set of length at most n.
SeqsUpTo(set, n) == UNION {[1..k -> set] : k \in 0..n}

\* Number of occurrences of x in the sequence.
Count(seq, x) == Cardinality({k \in 1..Len(seq) : seq[k] = x})

Range(seq) == {seq[k] : k \in 1..Len(seq)}

SameBag(s, t) == \A x \in Range(s) \cup Range(t) : Count(s, x) = Count(t, x)

(***************************************************************************)
(* SpecNames: parseNames applied to every short statement                  *)
(***************************************************************************)

MaxNameStmtLen == 5

NameStmtChars == {":", "?", "a", "b", "1", " "}

InitNames ==
    /\ pc = "input"
    /\ fnIn \in [stmt : SeqsUpTo(NameStmtChars, MaxNameStmtLen)]
    /\ fnOut = None
    /\ QuerierInit

\* parseNames is called with offset 0 or with the offset of the first prefix.
ParseNamesStep ==
    /\ pc = "input"
    /\ \E offset \in {0, indexOfInputNamedArgs(fnIn.stmt)} :
          /\ offset >= 0
          /\ fnOut' = parseNames(fnIn.stmt, offset)
    /\ pc' = "done"
    /\ UNCHANGED <<fnIn, querierVars>>

NextNames == ParseNamesStep

SpecNames == InitNames /\ [][NextNames]_vars

\* The name that follows the prefix at offset p: the runes up to the next
\* terminator or the end of the statement.
NameAfter(stmt, p) ==
    LET rest == From(stmt, p + 1)
        stop == IndexAny(rest, {" ", ",", ";", "=", ")"})
    IN  IF stop = -1 THEN rest ELSE Upto(rest, stop)

RECURSIVE PlaceholdersFrom(_, _)
\* The bindings met from offset p on, left to right: one for each prefix
\* character that is not a '?' standing before a terminator.
PlaceholdersFrom(stmt, p) ==
    IF p >= Len(stmt) THEN <<>>
    ELSE IF At(stmt, p) \in prefixes
            /\ ~(At(stmt, p) = "?" /\ p + 1 < Len(stmt)
                  /\ At(stmt, p + 1) \in {" ", ",", ";", "=", ")"})
         THEN <<[prefix |-> At(stmt, p), name |-> NameAfter(stmt, p)]>>
                  \o PlaceholdersFrom(stmt, p + 1)
    ELSE PlaceholdersFrom(stmt, p + 1)

NamesSorted(names) ==
    \A k \in 1..Len(names) - 1 : ~StrLess(names[k + 1].name, names[k].name)

\* C7: when parseNames succeeds, its bindings are in non-decreasing order of
\* name and are a permutation of the bindings met scanning left to right,
\* one per placeholder occurrence, none lost or duplicated by the jump.
ParseNamesSortedPermutation ==
    (pc = "done" /\ "names" \in DOMAIN fnOut /\ ~fnOut.err) =>
        /\ NamesSorted(fnOut.names)
        /\ SameBag(fnOut.names, PlaceholdersFrom(fnIn.stmt, 0))

\* C7 witness: two placeholders, the second reached by the jump, returned
\* in the opposite order.
ParseNamesSortedWitness ==
    /\ pc = "done" /\ "names" \in DOMAIN fnOut /\ ~fnOut.err
    /\ Len(fnOut.names) = 2
    /\ fnOut.names # PlaceholdersFrom(fnIn.stmt, 0)
    /\ fnOut.names[1].name # fnOut.names[2].name

\* C8: a prefix followed by a terminator or by the end of the statement
\* yields no binding, so no returned binding has an empty name.
ParseNamesNoEmptyName ==
    (pc = "done" /\ "names" \in DOMAIN fnOut /\ ~fnOut.err) =>
        \A k \in 1..Len(fnOut.names) : fnOut.names[k].name # <<>>

(***************************************************************************)
(* SpecExpand: the collision map and expandRecords, as compileStatement    *)
(* chains them, applied to record bindings with disjoint spans             *)
(***************************************************************************)

MaxExpandStmtLen == 5
MaxRecords == 2
MaxEntities == 2

ColA == <<"a">>
ColN == <<"n">>

\* The descriptors of destinations d1 of type P and d3 of type R.
StructP == Reflect([type |-> "P", ref |-> "d1"]).info
StructR == Reflect([type |-> "R", ref |-> "d3"]).info

\* A statement whose characters all differ, so that a misplaced splice shows.
ExpandStmt == SubSeq(<<"0", "1", "2", "3", "4", "5", "6", "7">>, 1, MaxExpandStmtLen)

\* Bindings as the record scanner leaves them: a non-empty span inside the
\* statement; a wildcard, or a list of explicit fields.
ExpandBindings ==
    {b \in [name : {StructP.Name, StructR.Name},
            prefix : {<<>>, <<"p">>},
            fields : {{}, {ColA}, {ColN}},
            wildcard : BOOLEAN,
            start : 0..MaxExpandStmtLen,
            end : 0..MaxExpandStmtLen] :
        /\ b.start < b.end
        /\ b.wildcard => b.fields = {}}

RECURSIVE OrderedRecordLists(_, _)
\* The lists of at most n bindings in source order with pairwise disjoint
\* [start, end) spans, none starting before offset `from`.
OrderedRecordLists(from, n) ==
    IF n = 0 THEN {<<>>}
    ELSE {<<>>} \cup
         UNION {{<<b>> \o rest : rest \in OrderedRecordLists(b.end, n - 1)} :
                  b \in {x \in ExpandBindings : x.start >= from}}

InitExpand ==
    /\ pc = "input"
    /\ fnIn \in [stmt : {ExpandStmt},
                 records : OrderedRecordLists(0, MaxRecords),
                 entities : SeqsUpTo({StructP, StructR}, MaxEntities)]
    /\ fnOut = None
    /\ QuerierInit

\* compileStatement from the collision map on.
ExpandStep ==
    /\ pc = "input"
    /\ fnOut' = expandRecords(fnIn.stmt, fnIn.records, fnIn.entities,
                              fieldIntersections(fnIn.entities))
    /\ pc' = "done"
    /\ UNCHANGED <<fnIn, querierVars>>

NextExpand == ExpandStep

SpecExpand == InitExpand /\ [][NextExpand]_vars

ExpandDone == pc = "done" /\ "lists" \in DOMAIN fnOut

\* The column list of a binding is defined when its target type is supplied,
\* its explicit fields are columns of the type and it projects something.
ColumnListDefined(record, entities) ==
    /\ entityOf(record, entities) # 0
    /\ LET entity == entities[entityOf(record, entities)] IN
         /\ ~record.wildcard => record.fields \subseteq DOMAIN entity.Fields
         /\ (IF record.wildcard THEN DOMAIN entity.Fields ELSE record.fields) # {}

RECURSIVE Spliced(_, _, _, _)
\* The statement from offset `from` on with the span of each binding from
\* position k on replaced by its list, the text between the spans kept.
Spliced(stmt, records, lists, k) ==
    IF k > Len(records)
    THEN SubSeq(stmt, (IF k = 1 THEN 0 ELSE records[k - 1].end) + 1, Len(stmt))
    ELSE SubSeq(stmt, (IF k = 1 THEN 0 ELSE records[k - 1].end) + 1,
                records[k].start)
           \o lists[k] \o Spliced(stmt, records, lists, k + 1)

\* C2: for bindings in source order with disjoint spans and supplied target
\* types, expandRecords returns the statement with each span replaced by
\* the binding's comma-joined column list and every character outside the
\* spans unchanged and in place, whatever the lengths of the replacements.
ExpandReplacesSpansOnly ==
    (ExpandDone
       /\ \A k \in 1..Len(fnIn.records) :
            ColumnListDefined(fnIn.records[k], fnIn.entities)) =>
        /\ fnOut.err = ""
        /\ Len(fnOut.lists) = Len(fnIn.records)
        /\ fnOut.stmt = Spliced(fnIn.stmt, fnIn.records, fnOut.lists, 1)

\* C2 witness: two expansions, the first longer than its span, with text
\* before, between and after them.
ExpandReplacesSpansWitness ==
    /\ ExpandDone /\ fnOut.err = ""
    /\ Len(fnIn.records) = 2
    /\ Len(fnOut.lists[1]) > fnIn.records[1].end - fnIn.records[1].start
    /\ fnIn.records[1].start > 0
    /\ fnIn.records[1].end < fnIn.records[2].start
    /\ fnIn.records[2].end < Len(fnIn.stmt)

\* The token of column c in the list of a binding, as a function of whether
\* the column counts as shared.
ColumnToken(c, record, shared) ==
    IF record.prefix = <<>> THEN c
    ELSE IF shared
         THEN record.prefix \o <<".">> \o c \o <<" ", "A", "S", " ">>
                \o <<"_", "p", "f", "x", "_">> \o record.prefix
                \o <<"_", "s", "f", "x", "_">> \o c
    ELSE record.prefix \o <<".">> \o c

\* c is a column of a supplied target type other than the binding's.
SharedWithOtherType(c, record, entities) ==
    \E k \in 1..Len(entities) :
        entities[k].Name # record.name /\ c \in DOMAIN entities[k].Fields

\* c is a column of at least two of the supplied descriptors, which may be
\* two destinations of the binding's own type.
SharedWithOtherDestination(c, record, entities) ==
    \E j, k \in 1..Len(entities) :
        j # k /\ c \in DOMAIN entities[j].Fields /\ c \in DOMAIN entities[k].Fields

ProjectedColumns(record, entities) ==
    IF record.wildcard THEN DOMAIN entities[entityOf(record, entities)].Fields
    ELSE record.fields

MaxColumns == 2

\* A second destination of type P.
StructP2 == Reflect([type |-> "P", ref |-> "d2"]).info

\* The name under which the driver returns a column selected with the
\* given alias prefix (none when empty).
ColumnName(prefix, name) ==
    IF prefix = <<>> THEN name
    ELSE <<"_", "p", "f", "x", "_">> \o prefix \o <<"_", "s", "f", "x", "_">> \o name

\* The returned columns of the model: a or n bare or aliased with p or r, c
\* which no type has, and an alias prefix that no separator follows.
MappingColumns ==
    {[prefix |-> p, name |-> n, text |-> ColumnName(p, n)] :
        p \in {<<>>, <<"p">>, <<"r">>}, n \in {ColA, ColN}}
    \cup {[prefix |-> <<>>, name |-> <<"c">>, text |-> <<"c">>],
          [prefix |-> <<"p">>, name |-> <<>>,
           text |-> <<"_", "p", "f", "x", "_", "p">>]}

MappingBinding(name, prefix) ==
    [name |-> name, prefix |-> prefix, fields |-> {}, wildcard |-> TRUE,
     start |-> 0, end |-> 1]

MappingBindings ==
    {MappingBinding(StructP.Name, <<"p">>), MappingBinding(StructR.Name, <<"r">>),
     MappingBinding(StructR.Name, <<"p">>)}

InitMapping ==
    /\ pc = "input"
    /\ fnIn \in [columns : SeqsUpTo(MappingColumns, MaxColumns),
                 entities : SeqsUpTo({StructP, StructP2, StructR}, MaxEntities),
                 fields : SeqsUpTo(MappingBindings, MaxRecords)]
    /\ fnOut = None
    /\ QuerierInit

MappingStep ==
    /\ pc = "input"
    /\ fnOut' = structMapping([k \in 1..Len(fnIn.columns) |-> fnIn.columns[k].text],
                              fnIn.entities, fnIn.fields)
    /\ pc' = "done"
    /\ UNCHANGED <<fnIn, querierVars>>

NextMapping == MappingStep

SpecMapping == InitMapping /\ [][NextMapping]_vars

MappingDone == pc = "done" /\ "columnar" \in DOMAIN fnOut

\* Destination k has a field for the column and, for an aliased column, its
\* type name has a record binding with the column's prefix.
Qualifies(k, column, entities, fields) ==
    /\ column.name \in DOMAIN entities[k].Fields
    /\ column.prefix # <<>> =>
         \E b \in Range(fields) :
             b.name = entities[k].Name /\ b.prefix = column.prefix

FirstQualifying(column, entities, fields) ==
    CHOOSE k \in 1..Len(entities) :
        /\ Qualifies(k, column, entities, fields)
        /\ \A j \in 1..(k - 1) : ~Qualifies(j, column, entities, fields)

MaxIdentParts == 2

\* The pieces identifiers are built from.
IdentParts == {<<"a">>, <<"n">>, AliasSeparator}

RECURSIVE Identifiers(_)
\* The non-empty identifiers of at most n pieces.
Identifiers(n) ==
    IF n <= 1 THEN IdentParts
    ELSE Identifiers(n - 1)
           \cup {x \o p : x \in Identifiers(n - 1), p \in IdentParts}

InitAlias ==
    /\ pc = "input"
    /\ fnIn \in [prefix : Identifiers(MaxIdentParts),
                 name : Identifiers(MaxIdentParts)]
    /\ fnOut = None
    /\ QuerierInit

\* The column token of a colliding column, the name the driver reports for
\* it (the text after " AS "), and what structMapping reads out of that name.
AliasStep ==
    /\ pc = "input"
    /\ pc' = "done"
    /\ LET token == constructFieldNameAlias(fnIn.name, [prefix |-> fnIn.prefix],
                                            {fnIn.name})
           as == <<" ", "A", "S", " ">>
           alias == From(token, IndexOf(token, as) + Len(as))
       IN  fnOut' = [token |-> token, alias |-> alias,
                     decoded |-> decodeColumn(alias)]
    /\ UNCHANGED <<fnIn, querierVars>>

NextAlias == AliasStep

SpecAlias == InitAlias /\ [][NextAlias]_vars

\* C5: decoding the alias _pfx_P_sfx_c that the compiler emits for a table
\* prefix P and a column c gives back exactly the pair (P, c).
AliasRoundTrips ==
    pc = "done" =>
        /\ fnOut.alias = AliasPrefix \o fnIn.prefix \o AliasSeparator \o fnIn.name
        /\ ~fnOut.decoded.panic
        /\ fnOut.decoded.prefix = fnIn.prefix
        /\ fnOut.decoded.name = fnIn.name

(***************************************************************************)
(* SpecArgs: constructNamedArguments applied to statements and arguments   *)
(***************************************************************************)

MaxExtraArgs == 1

ArgStmts ==
    {<<"S">>,
     <<":", "n">>,
     <<":", "n", ",", ":", "a">>,
     <<"$", "a", " ", "@", "n">>,
     <<":", "n", " ", "?">>}

\* First arguments: maps of three types (an int key is written by its
\* digits), structs, a slice, an int, nil.
FirstArgs ==
    {Value("mapIface", <<>>),
     Value("mapIface", <<"n">> :> 1),
     Value("mapIface", (<<"a">> :> 1) @@ (<<"n">> :> 2)),
     Value("mapIface", (<<>> :> 3) @@ (<<"n">> :> 1)),
     Value("mapInt", (<<"a">> :> 1) @@ (<<"n">> :> 2)),
     Value("mapIntKey", <<"1">> :> 1),
     Value("P", (<<"A">> :> 1) @@ (<<"N">> :> 2)),
     Value("R", <<"N">> :> 1),
     Value("O", <<"N">> :> 1),
     Value("U", <<"N">> :> 1),
     Value("X", <<"N">> :> 1),
     Value("slice", <<1>>),
     Value("int", 7),
     Value("nil", 0)}

ExtraArgs == {Value("int", 7), Value("int", 8)}

ArgLists ==
    {<<>>} \cup {<<a>> \o rest : a \in FirstArgs \cup ExtraArgs,
                                  rest \in SeqsUpTo(ExtraArgs, MaxExtraArgs)}

InitArgs ==
    /\ pc = "input"
    /\ fnIn \in [stmt : ArgStmts, args : ArgLists]
    /\ fnOut = None
    /\ QuerierInit

ArgsStep ==
    /\ pc = "input"
    /\ pc' = "done"
    /\ fnOut' = constructNamedArguments(fnIn.stmt, fnIn.args)
    /\ UNCHANGED <<fnIn, querierVars>>

NextArgs == ArgsStep

SpecArgs == InitArgs /\ [][NextArgs]_vars

\* The name bindings of a statement, in the order parseNames gives them.
Bindings(stmt) ==
    IF indexOfInputNamedArgs(stmt) >= 0
    THEN parseNames(stmt, indexOfInputNamedArgs(stmt)).names
    ELSE <<>>

BindingsFail(stmt) ==
    indexOfInputNamedArgs(stmt) >= 0
      /\ parseNames(stmt, indexOfInputNamedArgs(stmt)).err

BoundNames(stmt) == {Bindings(stmt)[k].name : k \in 1..Len(Bindings(stmt))}

IsStringKeyedMapping(a) ==
    a.type # "nil" /\ GoType(a.type).kind = "map" /\ GoType(a.type).keyString

IsDynamicMapping(a) == IsStringKeyedMapping(a) /\ GoType(a.type).elemIface

IsRecord(a) ==
    a.type # "nil" /\ GoType(a.type).kind = "struct" /\ Reflect(a).err = ""

\* The name-to-value content of a mapping or of a record (by column name).
Content(a) ==
    IF IsRecord(a)
    THEN [c \in DOMAIN Reflect(a).info.Fields |->
            a.ref[Reflect(a).info.Fields[c].Name]]
    ELSE a.ref

\* The list the driver is to receive: the further arguments, then one named
\* argument per binding.
ExpectedArgs(stmt, args) ==
    Tail(args) \o [k \in 1..Len(Bindings(stmt)) |->
                     Named(Bindings(stmt)[k].name,
                           Content(args[1])[Bindings(stmt)[k].name])]

Supplies(a, stmt) == BoundNames(stmt) \subseteq DOMAIN Content(a)

\* C9 as stated: every string-keyed mapping and every record that supplies
\* the bound names gives the further arguments followed by the named
\* arguments in binding order; without bindings the list is unchanged.
NamedArgumentsFromAnyMapping ==
    pc = "done" /\ ~BindingsFail(fnIn.stmt) =>
        /\ Bindings(fnIn.stmt) = <<>> =>
               fnOut.err = "" /\ fnOut.args = fnIn.args
        /\ /\ Bindings(fnIn.stmt) # <<>>
           /\ fnIn.args # <<>>
           /\ IsStringKeyedMapping(fnIn.args[1]) \/ IsRecord(fnIn.args[1])
           /\ Supplies(fnIn.args[1], fnIn.stmt)
           => /\ fnOut.err = "" /\ ~fnOut.panic
              /\ fnOut.args = ExpectedArgs(fnIn.stmt, fnIn.args)

\* C9, amended: the mapping is one whose values are of the dynamic type
\* (convertible to map[string]interface{}).  Such a mapping, or a record,
\* that supplies every bound name gives the further arguments verbatim and
\* in order followed by one named argument (name, value held) per binding in
\* binding order; a record gives the list its content gives as a mapping;
\* without bindings the list is returned unchanged.
NamedArgumentsFromDynamicMapping ==
    pc = "done" /\ ~BindingsFail(fnIn.stmt) =>
        /\ Bindings(fnIn.stmt) = <<>> =>
               fnOut.err = "" /\ fnOut.args = fnIn.args
        /\ /\ Bindings(fnIn.stmt) # <<>>
           /\ fnIn.args # <<>>
           /\ IsDynamicMapping(fnIn.args[1]) \/ IsRecord(fnIn.args[1])
           /\ Supplies(fnIn.args[1], fnIn.stmt)
           => /\ fnOut.err = "" /\ ~fnOut.panic
              /\ fnOut.args = ExpectedArgs(fnIn.stmt, fnIn.args)
              /\ fnOut = constructNamedArguments(fnIn.stmt,
                   <<Value("mapIface", Content(fnIn.args[1]))>>
                     \o Tail(fnIn.args))

\* A record supplied two bound names ahead of a further argument.
NamedArgumentsWitness ==
    /\ pc = "done"
    /\ Len(Bindings(fnIn.stmt)) = 2
    /\ Len(fnIn.args) = 2
    /\ IsRecord(fnIn.args[1])
    /\ fnOut.err = ""
    /\ Len(fnOut.args) = 3
    /\ fnOut.args[1] = fnIn.args[2]
    /\ fnOut.args[2] = Named(<<"a">>, 1)

(***************************************************************************)
(* SpecCalls: Query and Exec called with every shape of argument list      *)
(***************************************************************************)

StmtPlain == <<"S">>

CallStmts == {StmtPlain, <<":", "n">>, <<":", "n", ",", ":", "a">>}

CallArgLists ==
    {<<>>} \cup {<<a>> : a \in FirstArgs}
           \cup {<<Value("slice", <<1>>), Value("int", 7)>>}

Column(name) == [name |-> name, type |-> "INTEGER"]

CallResults ==
    {[fail |-> "query", columns |-> <<>>, rows |-> <<>>],
     [fail |-> "none", columns |-> <<Column(ColN)>>, rows |-> <<<<1>>>>]}

Init ==
    /\ pc = "api"
    /\ fnIn = None
    /\ fnOut = None
    /\ QuerierInit

CallsForOne == ForOne(1, <<"d1">>)

CallsQuery ==
    \E stmt \in CallStmts, args \in CallArgLists, drv \in CallResults :
        Query(1, stmt, args, drv)

CallsExec ==
    \E stmt \in CallStmts, args \in CallArgLists, fail \in BOOLEAN :
        Exec(stmt, args, fail)

NextCalls == CallsForOne \/ CallsQuery \/ CallsExec

SpecCalls == Init /\ [][NextCalls]_vars

IsCall == lastCall # None /\ lastCall.op \in {"Query", "Exec"}

KindOf(a) == IF a.type = "nil" THEN "nil" ELSE GoType(a.type).kind

\* The statement has a name binding and no argument is supplied.
NoArgumentForNames == Bindings(lastCall.stmt) # <<>> /\ lastCall.args = <<>>

\* The first argument is a mapping that lacks a bound name as key.
MappingLacksName ==
    /\ lastCall.args # <<>>
    /\ KindOf(lastCall.args[1]) = "map"
    /\ ~(BoundNames(lastCall.stmt) \subseteq DOMAIN lastCall.args[1].ref)

\* The first argument is a record without a field for a bound column name.
RecordLacksName ==
    /\ lastCall.args # <<>>
    /\ KindOf(lastCall.args[1]) = "struct"
    /\ \/ Reflect(lastCall.args[1]).err # "" /\ Bindings(lastCall.stmt) # <<>>
       \/ /\ Reflect(lastCall.args[1]).err = ""
          /\ ~(BoundNames(lastCall.stmt)
                 \subseteq DOMAIN Reflect(lastCall.args[1]).info.Fields)

\* The first argument is an array or a sequence.
FirstIsSequence ==
    lastCall.args # <<>> /\ KindOf(lastCall.args[1]) = "slice"

Rejected == lastCall.err # "" /\ ~lastCall.panic /\ events = <<>>

\* C10 as stated: Query and Exec return an error and reach neither the hook
\* nor the driver when names are bound and no argument is given, when the
\* first argument is a mapping or a record lacking a bound name, and
\* whenever the first argument is an array or a sequence.
CallsRejectEverySequence ==
    IsCall /\ (NoArgumentForNames \/ MappingLacksName \/ RecordLacksName
                 \/ FirstIsSequence)
      => Rejected

\* C10, amended: an array or sequence as first argument is rejected when the
\* statement has at least one name binding.  In that case, and when names
\* are bound and no argument is given, and when the first argument is a
\* mapping or a record lacking a bound name, Query and Exec return an error
\* and invoke neither the hook nor the driver.
CallsRejectBadNamedArguments ==
    IsCall /\ (NoArgumentForNames \/ MappingLacksName \/ RecordLacksName
                 \/ (FirstIsSequence /\ Bindings(lastCall.stmt) # <<>>))
      => Rejected

\* An Exec given a sequence for a statement with a name binding was rejected.
CallsRejectWitness ==
    /\ IsCall
    /\ lastCall.op = "Exec"
    /\ FirstIsSequence
    /\ Bindings(lastCall.stmt) # <<>>
    /\ Rejected

(***************************************************************************)
(* Spec: the Querier driven through Hook, ForOne, Query and Exec           *)
(***************************************************************************)

MaxHandles == 1
MaxDests == 2
MaxRows == 1

HookIds == {"h1"}

\* Lists of distinct destinations.
DestLists ==
    {v \in SeqsUpTo(Dests, MaxDests) :
       \A i, j \in 1..Len(v) : i # j => v[i] # v[j]}

\* "{P}", "{p.* INTO P}", "pp.* AS &P", "&P"
StmtBraces == <<"{", "P", "}">>
StmtInto == <<"{", "p", ".", "*", " ", "I", "N", "T", "O", " ", "P", "}">>
StmtAs == <<"p", "p", ".", "*", " ", "A", "S", " ", "&", "P">>
StmtAmp == <<"&", "P">>

QueryStmts == {StmtPlain, StmtBraces, StmtInto, StmtAs, StmtAmp}

ColumnLists ==
    {<<Column(ColN)>>, <<Column(ColA), Column(ColN)>>, <<Column(<<"c">>)>>}

RowValues == {1}

\* The cursors over the columns: every column of a row holds the row's value.
RowsOf(columns) ==
    {[k \in 1..Len(vs) |-> [i \in 1..Len(columns) |-> vs[k]]] :
       vs \in SeqsUpTo(RowValues, MaxRows)}

\* The driver fails at tx.Query or at ColumnTypes, or returns a cursor over
\* some columns; a Scan or the cursor may fail over the columns a, n.
DriverResults ==
    {[fail |-> f, columns |-> <<>>, rows |-> <<>>] : f \in {"query", "columns"}}
      \cup UNION {{[fail |-> "none", columns |-> c, rows |-> r] :
                     r \in RowsOf(c)} : c \in ColumnLists}
      \cup {[fail |-> "rows", columns |-> <<Column(ColA), Column(ColN)>>, rows |-> r] :
               r \in RowsOf(<<Column(ColA), Column(ColN)>>)}
      \cup {[fail |-> "scan", columns |-> <<Column(ColA), Column(ColN)>>, rows |-> r] :
               r \in RowsOf(<<Column(ColA), Column(ColN)>>) \ {<<>>}}

HookCall == \E h \in HookIds : Hook(h)

ForOneCall ==
    \E slot \in 1..MaxHandles, values \in DestLists : ForOne(slot, values)

QueryCall ==
    \E slot \in 1..MaxHandles, stmt \in QueryStmts, drv \in DriverResults :
        Query(slot, stmt, <<>>, drv)

ExecCall == \E fail \in BOOLEAN : Exec(StmtPlain, <<>>, fail)

Next == HookCall \/ ForOneCall \/ QueryCall \/ ExecCall

Spec == Init /\ [][Next]_vars

\* The destinations among values whose type is named T.
Supplying(T, values) ==
    {d \in Range(values) : GoType(DestType(d)).Name = T}

RECURSIVE ExpandAll(_, _)
\* The statement with every {T} and {prefix.* INTO T} replaced by the
\* columns of T, sorted and joined by ", "; ok tells whether every T is the
\* type of a destination.
ExpandAll(stmt, values) ==
    LET open == IndexOf(stmt, <<"{">>)
        close == IndexOf(stmt, <<"}">>)
        body == SubSeq(stmt, open + 2, close)
        into == IndexOf(body, <<" ", "I", "N", "T", "O", " ">>)
        T == IF into = -1 THEN body ELSE From(body, into + 6)
        prefix == IF into = -1 THEN <<>> ELSE Upto(body, into - 2)
        d == CHOOSE x \in Supplying(T, values) : TRUE
        columns == {IF prefix = <<>> THEN c ELSE prefix \o <<".">> \o c :
                      c \in DOMAIN ZeroOf(DestType(d))}
        rest == ExpandAll(From(stmt, close + 1), values)
    IN  IF open = -1 \/ close < open THEN [sql |-> stmt, ok |-> TRUE]
        ELSE IF Supplying(T, values) = {} THEN [sql |-> stmt, ok |-> FALSE]
        ELSE [sql |-> Upto(stmt, open)
                        \o Join(sortStrings(SetToSeq(columns)), <<",", " ">>)
                        \o rest.sql,
              ok |-> rest.ok]

\* C1: the SQL text handed to the hook and to the driver by a Query with
\* record destinations is the statement with every record expansion replaced
\* by the sorted, ", "-joined column names of its type, the rest in place.
RewrittenSQLExpandsRecords ==
    /\ lastCall # None
    /\ lastCall.op = "Query"
    /\ lastCall.plan = "struct"
    /\ ExpandAll(lastCall.stmt, lastCall.values).ok
    => \A k \in 1..Len(events) :
         events[k].kind \in {"hook", "driver"}
           => events[k].sql = ExpandAll(lastCall.stmt, lastCall.values).sql

\* C6: a successful Query of a Query value that ForOne made for the record
\* destinations d1..dn modifies no destination but d1..dn, whatever ForOne
\* calls came before.
QueryWritesOnlyItsDestinations ==
    [][(/\ lastCall'.op = "Query"
        /\ lastCall'.plan = "struct"
        /\ lastCall'.err = ""
        /\ ~lastCall'.panic)
       => \A d \in Dests \ Range(lastCall'.values) : dests'[d] = dests[d]]_vars

(***************************************************************************)
(* SpecHandles: a Querier and its copy, their hooks and their Query values *)
(***************************************************************************)

\* The observers installed on the Querier and on its copy.
OriginalHooks == {"h1"}
CopyHooks == {"h2"}

StmtOther == <<"T">>

HandleStmts == {StmtPlain, StmtOther}

\* The driver fails at tx.Query, at ColumnTypes or at the Scan of a row, or
\* returns a column no destination has, or an empty cursor.
HandleResults ==
    {[fail |-> "query", columns |-> <<>>, rows |-> <<>>],
     [fail |-> "columns", columns |-> <<>>, rows |-> <<>>],
     [fail |-> "scan", columns |-> <<Column(ColN)>>, rows |-> <<<<1>>>>],
     [fail |-> "none", columns |-> <<Column(<<"c">>)>>, rows |-> <<>>],
     [fail |-> "none", columns |-> <<Column(ColN)>>, rows |-> <<>>]}

HandlesHook == \E h \in OriginalHooks : Hook(h)

HandlesForOne == \E values \in {<<"d1">>, <<"d2">>} : ForOne(1, values)

HandlesForMany == ForMany(2, <<"s1">>)

HandlesQuery ==
    \E slot \in 1..2, stmt \in HandleStmts, drv \in HandleResults :
        Query(slot, stmt, <<>>, drv)

HandlesExec == \E stmt \in HandleStmts, fail \in BOOLEAN : Exec(stmt, <<>>, fail)

HandlesCopyHook == \E h \in CopyHooks : CopyHook(h)

HandlesCopyForOne == \E values \in {<<"d1">>, <<"d2">>} : CopyForOne(1, values)

HandlesCopyQuery ==
    \E stmt \in HandleStmts, drv \in HandleResults : CopyQuery(1, stmt, <<>>, drv)

HandlesCopyExec ==
    \E stmt \in HandleStmts, fail \in BOOLEAN : CopyExec(stmt, <<>>, fail)

NextHandles ==
    \/ HandlesHook \/ HandlesForOne \/ HandlesForMany \/ HandlesQuery
    \/ HandlesExec \/ Copy \/ HandlesCopyHook \/ HandlesCopyForOne
    \/ HandlesCopyQuery \/ HandlesCopyExec

SpecHandles == Init /\ [][NextHandles]_vars

IsDriverCall(k) == events[k].kind = "driver"

IsHookCall(k) == events[k].kind = "hook"

\* C11: in every Query or Exec each driver call is immediately preceded by
\* one hook invocation with the SQL text the driver receives, and every
\* hook invocation is immediately followed by the driver call, also when
\* column metadata, mapping or scanning fails afterwards.
HookPrecedesDriverCall ==
    IsCall =>
      \A k \in 1..Len(events) :
        /\ IsDriverCall(k) =>
              /\ k > 1
              /\ IsHookCall(k - 1)
              /\ events[k - 1].sql = events[k].sql
              /\ events[k].sql = lastCall.stmt
        /\ IsHookCall(k) => k < Len(events) /\ IsDriverCall(k + 1)

\* A Query whose scan failed after the driver call had reported to the hook.
HookPrecedesDriverWitness ==
    /\ IsCall
    /\ lastCall.op = "Query"
    /\ lastCall.err = "driver: scan"
    /\ Len(events) >= 2
    /\ IsHookCall(1) /\ IsDriverCall(2)
    /\ events[1].hook \in OriginalHooks

\* The Querier the last call was made on, or whose Query value it used.
OnCopy == "on" \in DOMAIN lastCall

\* The hook that Querier has now.
CurrentHook == IF OnCopy THEN copy.querier.hook ELSE hook

\* The hook that Querier had when the Query value of the last call was made.
HookWhenMade ==
    IF OnCopy THEN copy.queries[lastCall.slot].installed
    ELSE queries[lastCall.slot].installed

\* The last call reached the driver.
ReachedDriver == \E k \in 1..Len(events) : IsDriverCall(k)

\* The hooks the last call invoked.
InvokedHooks == {events[k].hook : k \in {j \in 1..Len(events) : IsHookCall(j)}}

\* C12 as stated: the observer invoked before a driver call, by Exec and by
\* every Query value, made before or after the Hook call, is the one the
\* Querier has now.
LatestHookObservesEveryQuery ==
    IsCall /\ ReachedDriver => InvokedHooks = {CurrentHook}

\* C12, amended: the observer invoked before a driver call of Exec is the one
\* the Querier has now; the observer invoked before a driver call of a Query
\* value is the one the Querier had when ForOne or ForMany made the value,
\* so a Hook call changes the observer of the Query values made after it
\* and of no other.
HookWhenMadeObservesQuery ==
    IsCall /\ ReachedDriver =>
      InvokedHooks = {IF lastCall.op = "Exec" THEN CurrentHook ELSE HookWhenMade}

\* A Query value that ForMany made before the Hook call reached the driver
\* after it.
HookWhenMadeWitness ==
    /\ IsCall
    /\ lastCall.op = "Query"
    /\ lastCall.plan = "slice"
    /\ ReachedDriver
    /\ ~OnCopy
    /\ hook \in OriginalHooks
    /\ HookWhenMade = "noop"

\* The descriptors that the Query value of the last ForOne holds.
MadeEntities ==
    IF OnCopy THEN copy.queries[lastCall.slot].q.entities
    ELSE queries[lastCall.slot].q.entities

\* The statement cache of the copy.
CopyStatements == IF copy = None THEN <<>> ELSE copy.querier.stmtCache

\* C16: after q2 = q.Copy() the two statement caches are separate (the copy
\* starts with none of q's statements and a Query through one handle leaves
\* the cache of the other as it was), the descriptor of a type cached
\* through either handle is the one ForOne returns through the other, and
\* no hook installed on q is invoked for a driver call made through q2.
CopySharesOnlyDescriptors ==
    [][/\ (copy = None /\ copy' # None) => copy'.querier.stmtCache = <<>>
       /\ (copy # None /\ CopyStatements' # CopyStatements) =>
             /\ lastCall'.op = "Query" /\ "on" \in DOMAIN lastCall'
             /\ stmtCache' = stmtCache
       /\ stmtCache' # stmtCache =>
             /\ lastCall'.op = "Query" /\ "on" \notin DOMAIN lastCall'
             /\ CopyStatements' = CopyStatements
       /\ (lastCall'.op = "ForOne" /\ lastCall'.err = "" /\ ~lastCall'.panic) =>
             \A k \in 1..Len(lastCall'.values) :
               DestType(lastCall'.values[k]) \in DOMAIN reflectCache =>
                 MadeEntities'[k] = reflectCache[DestType(lastCall'.values[k])]
       /\ ("on" \in DOMAIN lastCall' /\ lastCall'.op \in {"Query", "Exec"}) =>
             InvokedHooks' \cap OriginalHooks = {}]_vars

\* A Query through the copy reached the driver while q had a hook installed,
\* with the descriptor that a ForOne through q had cached.
CopySharesWitness ==
    /\ IsCall
    /\ OnCopy
    /\ lastCall.op = "Query"
    /\ ReachedDriver
    /\ hook \in OriginalHooks
    /\ copy.queries[1].values = <<"d2">>
    /\ copy.queries[1].q.entities[1].Value = "d1"

\* C13: after a successful Query of a statement with a record expansion the
\* statement cache of the Querier holds an entry keyed by that statement
\* (which later Query calls of the statement use instead of compiling).
QueryCachesExpandedStatement ==
    (/\ lastCall # None
     /\ lastCall.op = "Query"
     /\ lastCall.plan = "struct"
     /\ lastCall.err = "" /\ ~lastCall.panic
     /\ IndexOf(lastCall.stmt, <<"{">>) >= 0)
    => lastCall.stmt \in DOMAIN stmtCache

(***************************************************************************)
(* SpecMany: Query values of ForOne and ForMany over cursors of several    *)
(* rows                                                                    *)
(***************************************************************************)

MaxManyRows == 2
MaxAppended == 1

ManyOneLists == {<<>>, <<"d1">>, <<"m1">>}

ManySliceLists == {<<"s1">>, <<"s2">>, <<"si">>}

ManyColumnLists == {<<Column(ColA), Column(ColN)>>, <<Column(<<"c">>)>>}

\* The cursors of at most MaxManyRows rows: every column of row k holds k.
ManyRows(columns) ==
    {[k \in 1..n |-> [i \in 1..Len(columns) |-> k]] : n \in 0..MaxManyRows}

\* The driver fails at tx.Query or at ColumnTypes, or returns a cursor that
\* fails at no step, at the Scan of its last row or at its end.
ManyResults ==
    {[fail |-> f, columns |-> <<>>, rows |-> <<>>] : f \in {"query", "columns"}}
      \cup UNION {{[fail |-> f, columns |-> c, rows |-> r] :
                     f \in {"none", "rows"}, r \in ManyRows(c)} :
                  c \in ManyColumnLists}
      \cup UNION {{[fail |-> "scan", columns |-> c, rows |-> r] :
                     r \in ManyRows(c) \ {<<>>}} : c \in ManyColumnLists}

ManyForOne == \E values \in ManyOneLists : ForOne(1, values)

ManyForMany == \E values \in ManySliceLists : ForMany(2, values)

\* The caller stops once a slice holds MaxAppended elements.
ManyQuery ==
    /\ \A d \in Slices : Len(dests[d]) < MaxAppended
    /\ \E slot \in 1..2, drv \in ManyResults : Query(slot, StmtPlain, <<>>, drv)

NextMany == ManyForOne \/ ManyForMany \/ ManyQuery

SpecMany == Init /\ [][NextMany]_vars

\* The last call was a Query of a Query value that ForMany made.
IsSliceQuery ==
    lastCall # None /\ lastCall.op = "Query" /\ lastCall.plan = "slice"

\* The elements from position from + 1 on hold, for each returned column,
\* the values of the rows, in order.
HoldsRows(elements, from, drv) ==
    /\ Len(elements) = from + Len(drv.rows)
    /\ \A i \in 1..Len(drv.rows) :
         \A c \in 1..Len(drv.columns) :
           elements[from + i][drv.columns[c].name] = drv.rows[i][c]

\* C14: a Query made through ForMany whose cursor yields n rows without
\* error appends n records to each sequence destination it was given, the
\* i-th holding the values of row i, after the elements the sequence held,
\* which are unchanged.
SliceAccumulatesInOrder ==
    [][(IsSliceQuery' /\ lastCall'.err = "" /\ ~lastCall'.panic) =>
         \A d \in Range(lastCall'.values) :
           /\ SubSeq(dests'[d], 1, Len(dests[d])) = dests[d]
           /\ HoldsRows(dests'[d], Len(dests[d]), lastCall'.drv)]_vars

\* The positions of the events of a kind.
EventsOf(kind) == {k \in 1..Len(events) : events[k].kind = kind}

\* C15: every rows cursor a Query obtains from the driver is closed when the
\* Query returns, whatever the exit: success, failure of ColumnTypes, count
\* mismatch, mapping failure, Scan error, cursor error.
CursorClosedOnEveryExit ==
    (lastCall # None /\ lastCall.op = "Query") =>
      /\ Cardinality(EventsOf("rows")) = Cardinality(EventsOf("close"))
      /\ Cardinality(EventsOf("rows")) = IF lastCall.drv.fail = "query" THEN 0 ELSE 1
      /\ \A k \in EventsOf("rows") : \E j \in EventsOf("close") : j > k
      /\ EventsOf("rows") # {} => ReachedDriver

\* A Query of a ForMany value whose Scan failed after a row had been
\* appended left the cursor closed.
CursorClosedWitness ==
    /\ IsSliceQuery
    /\ lastCall.err = "driver: scan"
    /\ Len(lastCall.drv.rows) = 2
    /\ EventsOf("rows") # {}
    /\ EventsOf("close") # {}

(***************************************************************************)
(* SpecCompile: compileStatement and parseRecords applied to short         *)
(* statements and to statements with record expansions                     *)
(***************************************************************************)

MaxCompileStmtLen == 3

CompileChars == {"{", "}", "&", "P", "S", " "}

\* "{p.* INTO P}", "{P}, {R}", "S {'p.n' INTO P}", "S {p.n INTO P} {R}"
RecordStmts ==
    {StmtInto,
     <<"{", "P", "}", ",", " ", "{", "R", "}">>,
     <<"S", " ", "{", "'", "p", ".", "n", "'", " ", "I", "N", "T", "O", " ",
       "P", "}">>,
     <<"S", " ", "{", "p", ".", "n", " ", "I", "N", "T", "O", " ", "P", "}",
       " ", "{", "R", "}">>}

CompileStmts == SeqsUpTo(CompileChars, MaxCompileStmtLen) \cup RecordStmts

InitCompile ==
    /\ pc = "input"
    /\ fnIn \in [stmt : CompileStmts]
    /\ fnOut = None
    /\ QuerierInit

\* compileStatement for the destination types P and R, and parseRecords
\* from the first "{" on when there is one.
CompileStep ==
    /\ pc = "input"
    /\ fnOut' = [compiled |-> compileStatement(fnIn.stmt, <<StructP, StructR>>),
                 parsed |-> IF IndexOf(fnIn.stmt, <<"{">>) >= 0
                            THEN parseRecords(fnIn.stmt, IndexOf(fnIn.stmt, <<"{">>))
                            ELSE [records |-> <<>>, err |-> ""]]
    /\ pc' = "done"
    /\ UNCHANGED <<fnIn, querierVars>>

NextCompile == CompileStep

SpecCompile == InitCompile /\ [][NextCompile]_vars

CompileDone == pc = "done" /\ "compiled" \in DOMAIN fnOut

\* C17: a statement without "{", whatever else it contains, is returned
\* unchanged by compileStatement, with no record binding and no error.
CompilePassesThroughWithoutBrace ==
    (CompileDone /\ IndexOf(fnIn.stmt, <<"{">>) = -1) =>
        fnOut.compiled = [stmt |-> fnIn.stmt, fields |-> <<>>, err |-> ""]

RECURSIVE OffsetsOf(_, _, _)
\* The offsets of the character in the statement from offset i on, in order.
OffsetsOf(stmt, char, i) ==
    IF i >= Len(stmt) THEN <<>>
    ELSE (IF At(stmt, i) = char THEN <<i>> ELSE <<>>) \o OffsetsOf(stmt, char, i + 1)

\* The characters of the text other than the quotes.
Unquoted(text) == SelectSeq(text, LAMBDA c : c \notin {"'", "\""})

\* The binding that the record expansion from offset open to offset close
\* (its braces) describes: the body is T, or prefix.name INTO T with the
\* projection possibly quoted.
BindingOf(stmt, open, close) ==
    LET body == SubSeq(stmt, open + 2, close)
        into == IndexOf(body, <<" ", "I", "N", "T", "O", " ">>)
        projection == Unquoted(Upto(body, into))
        dot == IndexOf(projection, <<".">>)
    IN  IF into = -1
        THEN [name |-> body, prefix |-> <<>>, fields |-> {}, wildcard |-> TRUE,
              start |-> open, end |-> close + 1]
        ELSE [name |-> From(body, into + 6),
              prefix |-> Upto(projection, dot),
              fields |-> {From(projection, dot + 1)},
              wildcard |-> From(projection, dot + 1) = <<"*">>,
              start |-> open, end |-> close + 1]

\* C18: for a statement with k record expansions parseRecords returns k
\* bindings in source order, the i-th with the offsets of its braces, the
\* target type, the unquoted prefix, the projected names and the wildcard
\* flag of the i-th expansion.
ParseRecordsReturnsBindings ==
    (CompileDone /\ fnIn.stmt \in RecordStmts) =>
        LET opens == OffsetsOf(fnIn.stmt, "{", 0)
            closes == OffsetsOf(fnIn.stmt, "}", 0)
        IN  /\ fnOut.parsed.err = ""
            /\ Len(fnOut.parsed.records) = Len(opens)
            /\ \A k \in 1..Len(opens) :
                 fnOut.parsed.records[k] = BindingOf(fnIn.stmt, opens[k], closes[k])

(***************************************************************************)
(* SpecPaths: tokenizeRecordPath and parseRecordPath applied to paths      *)
(* built from the grammar of the parser, alone and followed by a separator *)
(***************************************************************************)

MaxPathParts == 2

Quote == "\""

Ident(text) == makeRecordPath("ident", text)

\* A piece of a path: its text and the atoms it holds.
Piece(text, atoms) == [text |-> text, atoms |-> atoms]

\* What a path starts with: P, *, (P), 2, "k".
PathHeads ==
    {Piece(<<"P">>, <<Ident(<<"P">>)>>),
     Piece(<<"*">>, <<Ident(<<"*">>)>>),
     Piece(<<"(", "P", ")">>, <<Ident(<<"P">>)>>),
     Piece(<<"2">>, <<makeRecordPath("integer", 2)>>),
     Piece(<<Quote, "k", Quote>>, <<makeRecordPath("string", <<"k">>)>>)}

\* What a path goes on with: .n  .*  .1  [0]  [12]  ["k"]  [n]  [x.n]
PathParts ==
    {Piece(<<".", "n">>, <<Ident(<<"n">>)>>),
     Piece(<<".", "*">>, <<Ident(<<"*">>)>>),
     Piece(<<".", "1">>, <<makeRecordPath("integer", 1)>>),
     Piece(<<"[", "0", "]">>, <<makeRecordPath("integer", 0)>>),
     Piece(<<"[", "1", "2", "]">>, <<makeRecordPath("integer", 12)>>),
     Piece(<<"[", Quote, "k", Quote, "]">>, <<makeRecordPath("string", <<"k">>)>>),
     Piece(<<"[", "n", "]">>, <<Ident(<<"n">>)>>),
     Piece(<<"[", "x", ".", "n", "]">>, <<Ident(<<"x">>), Ident(<<"n">>)>>)}

RECURSIVE Glue(_)
\* The pieces put one after the other.
Glue(pieces) ==
    IF pieces = <<>> THEN Piece(<<>>, <<>>)
    ELSE Piece(pieces[1].text \o Glue(Tail(pieces)).text,
               pieces[1].atoms \o Glue(Tail(pieces)).atoms)

\* The path in parentheses.
Grouped(path) == Piece(<<"(">> \o path.text \o <<")">>, path.atoms)

\* The paths without whitespace: a head and at most MaxPathParts parts, and
\* such a path in parentheses followed by one part.
Paths ==
    LET plain == {Glue(<<h>> \o parts) :
                    h \in PathHeads, parts \in SeqsUpTo(PathParts, MaxPathParts)}
    IN  plain \cup {Glue(<<Grouped(x), part>>) :
                      x \in {y \in plain : Len(y.atoms) = 2}, part \in PathParts}

\* What follows the path: nothing, or whitespace and any further text.
PathSuffixes ==
    {<<>>, <<" ">>, <<" ", "A", "S">>, <<" ", " ", "\t">>,
     <<"\n", "x", ".", "n">>, <<" ", "&", "P">>}

InitPaths ==
    /\ pc = "input"
    /\ fnIn \in [path : Paths \cup {Piece(<<>>, <<>>)}, suffix : PathSuffixes]
    /\ fnOut = None
    /\ QuerierInit

\* tokenizeRecordPath and parseRecordPath of the path followed by the
\* suffix, and tokenizeRecordPath of the path alone.
PathsStep ==
    /\ pc = "input"
    /\ fnOut' = [tokens |-> tokenizeRecordPath(fnIn.path.text \o fnIn.suffix, 0),
                 alone |-> tokenizeRecordPath(fnIn.path.text, 0),
                 parsed |-> parseRecordPath(fnIn.path.text \o fnIn.suffix, 0)]
    /\ pc' = "done"
    /\ UNCHANGED <<fnIn, querierVars>>

NextPaths == PathsStep

SpecPaths == InitPaths /\ [][NextPaths]_vars

PathsDone == pc = "done" /\ "tokens" \in DOMAIN fnOut

\* The two sequences hold the same atoms: the same kinds, and the same
\* values for the same kinds.
SameAtoms(a, b) ==
    /\ Len(a) = Len(b)
    /\ \A i \in 1..Len(a) :
          a[i].tokenType = b[i].tokenType /\ a[i].value = b[i].value

\* C19: for a path without whitespace, alone or followed by whitespace and
\* any text, tokenizeRecordPath and parseRecordPath return no error, the
\* single expression and the atoms of the path, and the number of bytes of
\* the path as consumed; the empty input gives no expression and 0.
TerminatedParsingStopsAtSeparator ==
    (PathsDone /\ (fnIn.path.text = <<>> => fnIn.suffix = <<>>)) =>
        /\ fnOut.tokens.err = ""
        /\ fnOut.parsed.err = ""
        /\ fnOut.tokens.consumed = Len(fnIn.path.text)
        /\ fnOut.parsed.consumed = Len(fnIn.path.text)
        /\ fnOut.tokens.ast = fnOut.alone.ast
        /\ Len(fnOut.tokens.ast.Expressions) = IF fnIn.path.text = <<>> THEN 0 ELSE 1
        /\ SameAtoms(fnOut.parsed.paths, fnIn.path.atoms)

\* C20: compiling the AST of a path yields one sequence of atoms: the
\* identifiers, integers and strings of the path in source order, the
\* periods, brackets and parentheses adding nothing, for any nesting.
CompileYieldsLeavesInOrder ==
    (PathsDone /\ fnOut.alone.err = "") =>
        /\ compileRecordPathAST(fnOut.alone.ast).err = ""
        /\ SameAtoms(compileRecordPathAST(fnOut.alone.ast).paths, fnIn.path.atoms)

\* An index inside a group followed by an accessor was compiled.
CompileYieldsLeavesWitness ==
    /\ PathsDone
    /\ fnOut.alone.err = ""
    /\ fnIn.path.text = <<"(", "P", "[", "0", "]", ")", ".", "n">>
    /\ SameAtoms(compileRecordPathAST(fnOut.alone.ast).paths,
                 <<Ident(<<"P">>), makeRecordPath("integer", 0), Ident(<<"n">>)>>)

(***************************************************************************)
(* SpecReflect: Reflect applied to struct types whose fields carry, or do  *)
(* not carry, a db tag                                                     *)
(***************************************************************************)

MaxFields == 2

OmitEmptyOption == <<"o", "m", "i", "t", "e", "m", "p", "t", "y">>

\* A declared field: its name, whether it has a db tag, and the tag's body.
FieldDecl(name, tagged, body) == [Name |-> name, tagged |-> tagged, body |-> body]

\* field.Tag.Get("db"): the body of the tag, the empty string without one.
TagGet(decl) == IF decl.tagged THEN decl.body ELSE <<>>

\* The tag bodies of the model: "", a, n, n,omitempty, a,omitempty, n,b,
\* n,omitempty,b.
TagBodies ==
    {<<>>, <<"a">>, <<"n">>, <<"n", ",">> \o OmitEmptyOption,
     <<"a", ",">> \o OmitEmptyOption, <<"n", ",", "b">>,
     <<"n", ",">> \o OmitEmptyOption \o <<",", "b">>}

FieldDecls ==
    {FieldDecl(name, TRUE, body) : name \in {<<"A">>, <<"N">>}, body \in TagBodies}
      \cup {FieldDecl(name, FALSE, <<>>) : name \in {<<"A">>, <<"N">>}}

\* The struct types: up to MaxFields fields with different names.
StructDecls ==
    {d \in SeqsUpTo(FieldDecls, MaxFields) :
       Len(d) >= 1 /\ \A j, k \in 1..Len(d) : j # k => d[j].Name # d[k].Name}

InitReflect ==
    /\ pc = "input"
    /\ fnIn \in [decl : StructDecls]
    /\ fnOut = None
    /\ QuerierInit

\* The loop of Reflect over the fields of the struct.
ReflectStep ==
    /\ pc = "input"
    /\ fnOut' = reflectFields([k \in 1..Len(fnIn.decl) |->
                                 StructField(fnIn.decl[k].Name, TagGet(fnIn.decl[k]))],
                              1, <<>>)
    /\ pc' = "done"
    /\ UNCHANGED <<fnIn, querierVars>>

NextReflect == ReflectStep

SpecReflect == InitReflect /\ [][NextReflect]_vars

ReflectDone == pc = "done" /\ "Fields" \in DOMAIN fnOut

\* The column entry the tag of a declared field stands for: name, or
\* name,omitempty, or the lower-cased field name without a tag; an error for
\* an empty tag and for any other or additional option.
TagMeaning(decl) ==
    LET options == Split(decl.body, <<",">>) IN
    IF ~decl.tagged
    THEN [ok |-> TRUE, column |-> ToLower(decl.Name), omit |-> FALSE]
    ELSE IF decl.body = <<>> THEN [ok |-> FALSE, column |-> <<>>, omit |-> FALSE]
    ELSE IF Len(options) = 1
    THEN [ok |-> TRUE, column |-> options[1], omit |-> FALSE]
    ELSE IF Len(options) = 2 /\ options[2] = OmitEmptyOption
    THEN [ok |-> TRUE, column |-> options[1], omit |-> TRUE]
    ELSE [ok |-> FALSE, column |-> <<>>, omit |-> FALSE]

\* Every field has a column of its own.
ColumnsDiffer(decl) ==
    \A j, k \in 1..Len(decl) :
       j # k => TagMeaning(decl[j]).column # TagMeaning(decl[k]).column

\* C21: Reflect derives the column entry of each field from its tag: name
\* gives the column with omit_empty false, name,omitempty the column with
\* omit_empty true, no tag the lower-cased field name; an empty tag and any
\* other or additional option give an error; on success the descriptor has
\* one entry per field, keyed by column name.
ReflectFollowsTags ==
    ReflectDone =>
        IF \E k \in 1..Len(fnIn.decl) : ~TagMeaning(fnIn.decl[k]).ok
        THEN fnOut.err # ""
        ELSE ColumnsDiffer(fnIn.decl) =>
               /\ fnOut.err = ""
               /\ DOMAIN fnOut.Fields =
                    {TagMeaning(fnIn.decl[k]).column : k \in 1..Len(fnIn.decl)}
               /\ \A k \in 1..Len(fnIn.decl) :
                     LET m == TagMeaning(fnIn.decl[k]) IN
                       /\ fnOut.Fields[m.column].Name = fnIn.decl[k].Name
                       /\ fnOut.Fields[m.column].Tag.OmitEmpty = m.omit

(***************************************************************************)
(* SpecForOne: ForOne and ForMany applied to lists of destinations of      *)
(* every kind                                                              *)
(***************************************************************************)

MaxValues == 3

\* The types of the destinations: scalars, records, a mapping, a sequence,
\* and records whose tags Reflect rejects.
ForOneTypes == {"int", "string", "P", "R", "mapIface", "sliceP", "U", "X"}

\* The k-th variable of the caller, of the given type.
Variable(type, k) ==
    IF type = "sliceP" THEN (IF k = 1 THEN "s1" ELSE "s2")
    ELSE CASE k = 1 -> "v1" [] k = 2 -> "v2" [] OTHER -> "v3"

\* The destination lists: value k points to the k-th variable of the caller.
ForOneValues ==
    {[k \in 1..Len(types) |-> Value(types[k], Variable(types[k], k))] :
       types \in SeqsUpTo(ForOneTypes, MaxValues)}

InitForOne ==
    /\ pc = "input"
    /\ fnIn \in [values : ForOneValues, many : BOOLEAN]
    /\ fnOut = None
    /\ QuerierInit

\* q.ForOne(values...) or q.ForMany(values...) on a new Querier.
ForOneStep ==
    /\ pc = "input"
    /\ fnOut' = IF fnIn.many THEN forMany(<<>>, "noop", fnIn.values)
                ELSE forOne(<<>>, "noop", fnIn.values)
    /\ pc' = "done"
    /\ UNCHANGED <<fnIn, querierVars>>

NextForOne == ForOneStep

SpecForOne == InitForOne /\ [][NextForOne]_vars

ForOneDone == pc = "done" /\ "query" \in DOMAIN fnOut

\* The kind of a destination: scalar, record, mapping or sequence.
DestKind(value) ==
    CASE GoType(value.type).kind = "struct" -> "record"
      [] GoType(value.type).kind = "map" -> "mapping"
      [] GoType(value.type).kind = "slice" -> "sequence"
      [] OTHER -> "scalar"

AllOfKind(values, kind) == \A k \in 1..Len(values) : DestKind(values[k]) = kind

\* Reflect fails for one of the destinations.
ReflectFails(values) ==
    \E k \in 1..Len(values) : Reflect(values[k]).err # ""

\* All scalars, all records, or a single mapping.
Homogeneous(values) ==
    \/ AllOfKind(values, "scalar")
    \/ AllOfKind(values, "record")
    \/ Len(values) = 1 /\ AllOfKind(values, "mapping")

\* C22: ForOne accepts a destination list exactly when it is all scalars (of
\* any types and count), all records or a single mapping, and then returns
\* a usable Query; for a scalar mixed with a record in any positions, or
\* more than one mapping, it returns a non-nil error.
ForOneAcceptsHomogeneous ==
    (ForOneDone /\ ~fnIn.many /\ ~ReflectFails(fnIn.values)
       /\ ~\E k \in 1..Len(fnIn.values) : DestKind(fnIn.values[k]) = "sequence") =>
        IF Homogeneous(fnIn.values)
        THEN /\ fnOut.err = ""
             /\ ~fnOut.panic
             /\ fnOut.query.plan =
                  (IF fnIn.values = <<>> \/ DestKind(fnIn.values[1]) = "scalar"
                   THEN "default"
                   ELSE IF DestKind(fnIn.values[1]) = "record" THEN "struct"
                   ELSE "map")
        ELSE fnOut.err # ""

\* C23: when reflecting a destination fails, ForOne and ForMany return a
\* non-nil error, never a nil error with a Query without execution plan.
ReflectionErrorSurfaces ==
    (ForOneDone /\ ReflectFails(fnIn.values)) =>
        /\ fnOut.err # ""
        /\ ~(fnOut.err = "" /\ fnOut.query.plan = "nil")

(***************************************************************************)
(* SpecRows: Query values of ForOne (scalar, record, mapping) and ForMany  *)
(* over cursors of several rows whose columns cover all or some fields     *)
(***************************************************************************)

MaxCursorRows == 2
MaxElements == 2

RowsOneLists == {<<"i1">>, <<"d1">>, <<"m1">>}

RowsColumnLists == {<<Column(ColA), Column(ColN)>>, <<Column(ColA)>>}

\* The cursors that fail nowhere: at most MaxCursorRows rows, row k holding
\* k in every column.
RowsResults ==
    UNION {{[fail |-> "none", columns |-> c, rows |-> r] : r \in ManyRows(c)} :
           c \in RowsColumnLists}

InitRows ==
    /\ pc = "api"
    /\ fnIn = None
    /\ fnOut = None
    /\ reflectCache = <<>>
    /\ stmtCache = <<>>
    /\ hook = "noop"
    /\ queries = <<>>
    /\ dests = [d \in Dests \cup Slices \cup Maps \cup Scalars \cup {Virtual("P")} |->
                  ZeroValue(d)]
    /\ events = <<>>
    /\ lastCall = None
    /\ copy = None

RowsForOne == \E values \in RowsOneLists : ForOne(1, values)

RowsForMany == ForMany(2, <<"s1">>)

\* The caller stops once the slice holds MaxElements elements.
RowsQuery ==
    /\ Len(dests["s1"]) < MaxElements
    /\ \E slot \in 1..2, drv \in RowsResults : Query(slot, StmtPlain, <<>>, drv)

NextRows == RowsForOne \/ RowsForMany \/ RowsQuery

SpecRows == InitRows /\ [][NextRows]_vars

\* The names of the columns of a cursor.
ColumnNames(drv) == {drv.columns[c].name : c \in 1..Len(drv.columns)}

\* C27: every record appended to a sequence destination is built from a
\* fresh zero-valued record: a field the columns of the row do not cover
\* holds the zero value, never a value of an earlier row, Query or ForMany.
AppendedRecordsAreFresh ==
    [][(IsSliceQuery' /\ lastCall'.err = "" /\ ~lastCall'.panic) =>
         \A d \in Slices :
           \A i \in (Len(dests[d]) + 1)..Len(dests'[d]) :
             \A c \in DOMAIN dests'[d][i] :
               c \notin ColumnNames(lastCall'.drv) => dests'[d][i][c] = 0]_vars

\* The last call was a Query of a Query value that ForOne made.
IsOneQuery ==
    lastCall # None /\ lastCall.op = "Query"
      /\ lastCall.plan \in {"default", "map", "struct"}

\* The destination d after the rows of the cursor were scanned, in order,
\* over what it held: the last row in the places the columns name.
ScannedOver(d, before, drv) ==
    IF drv.rows = <<>> THEN before
    ELSE IF GoType(DestType(d)).kind \in {"struct", "map"}
    THEN [c \in DOMAIN before \cup ColumnNames(drv) |->
            IF c \in ColumnNames(drv)
            THEN drv.rows[Len(drv.rows)]
                   [CHOOSE i \in 1..Len(drv.columns) : drv.columns[i].name = c]
            ELSE before[c]]
    ELSE [c \in {<<>>} |-> drv.rows[Len(drv.rows)][1]]

\* C28: a Query made through ForOne whose cursor yields rows r1..rn without
\* error leaves in its destinations the result of scanning r1..rn in order
\* over their prior contents: the values of rn when n >= 1, and exactly
\* what they held when n = 0, a mapping's entries included.
LastRowWins ==
    [][(IsOneQuery' /\ lastCall'.err = "" /\ ~lastCall'.panic) =>
         \A d \in Range(lastCall'.values) :
           dests'[d] = ScannedOver(d, dests[d], lastCall'.drv)]_vars

\* C29: in every reachable state every statement-cache entry maps an
\* original SQL text to a rewritten SQL that differs from it: a statement
\* whose compilation left the text unchanged is never inserted, after any
\* sequence of successful and failed Query calls.
CacheHoldsOnlyRewrites ==
    \A t \in DOMAIN stmtCache : stmtCache[t].stmt # t

\* A Query of records succeeded with a statement that compilation left
\* unchanged, and the statement is not in the cache.
CacheSkipsUnchangedWitness ==
    /\ lastCall # None
    /\ lastCall.op = "Query"
    /\ lastCall.plan = "struct"
    /\ lastCall.err = ""
    /\ ~lastCall.panic
    /\ compileStatement(lastCall.stmt, queries[lastCall.slot].q.entities).stmt
         = lastCall.stmt
    /\ lastCall.stmt \notin DOMAIN stmtCache

(***************************************************************************)
(* SpecLexer: NextToken called again and again on short inputs with runs   *)
(* of whitespace                                                           *)
(***************************************************************************)

MaxLexInputLen == 4

LexChars == {"a", "n", ".", " ", "\t"}

LexInputs == SeqsUpTo(LexChars, MaxLexInputLen)

RECURSIVE lexTokens(_, _)
\* The tokens of n calls of NextToken.
lexTokens(l, n) ==
    IF n = 0 THEN <<>>
    ELSE <<NextToken(l).tok>> \o lexTokens(NextToken(l).l, n - 1)

InitLexer ==
    /\ pc = "input"
    /\ fnIn \in [input : LexInputs]
    /\ fnOut = None
    /\ QuerierInit

\* The lexer as NewParser sets it up (NewLexer, then ReadNext), asked for
\* two tokens more than the input has characters.
LexerStep ==
    /\ pc = "input"
    /\ fnOut' = [tokens |-> lexTokens(ReadNext(NewLexer(fnIn.input)),
                                      Len(fnIn.input) + 2)]
    /\ pc' = "done"
    /\ UNCHANGED <<fnIn, querierVars>>

NextLexer == LexerStep

SpecLexer == InitLexer /\ [][NextLexer]_vars

LexerDone == pc = "done" /\ "tokens" \in DOMAIN fnOut

\* The offsets at which a run of whitespace starts.
RunStarts(input) ==
    {i \in 0..(Len(input) - 1) :
       IsSpace(At(input, i)) /\ (i = 0 \/ ~IsSpace(At(input, i - 1)))}

\* The offset of the first character after the run that starts at i that is
\* not whitespace, the length of the input when there is none.
RunEnd(input, i) ==
    CHOOSE j \in (i + 1)..Len(input) :
       /\ \A k \in i..(j - 1) : IsSpace(At(input, k))
       /\ j = Len(input) \/ ~IsSpace(At(input, j))

\* C30: for every run of whitespace NextToken emits exactly one SEPARATOR,
\* positioned at the first whitespace character of the run, and the next
\* call starts at the first character after the run that is not
\* whitespace: no character is skipped; once the input is exhausted every
\* further call emits EOF with an empty literal.
SeparatorPerWhitespaceRun ==
    LexerDone =>
      LET tokens == fnOut.tokens
          seps == {k \in 1..Len(tokens) : tokens[k].Type = "SEPARATOR"}
      IN  /\ \A i \in RunStarts(fnIn.input) :
                Cardinality({k \in seps : tokens[k].Pos = i}) = 1
          /\ \A k \in seps :
                /\ tokens[k].Pos \in RunStarts(fnIn.input)
                /\ k < Len(tokens) =>
                     IF RunEnd(fnIn.input, tokens[k].Pos) = Len(fnIn.input)
                     THEN tokens[k + 1].Type = "EOF"
                     ELSE /\ tokens[k + 1].Pos = RunEnd(fnIn.input, tokens[k].Pos)
                          /\ tokens[k + 1].Type # "EOF"
          /\ \A k \in 1..(Len(tokens) - 1) :
                tokens[k].Type = "EOF" =>
                  tokens[k + 1].Type = "EOF" /\ tokens[k + 1].Literal = <<>>
          /\ tokens[Len(tokens)].Type = "EOF"

(***************************************************************************)
(* SpecConcurrent: two goroutines, each calling Query on a Query value of  *)
(* its own, made by ForMany or ForOne on the one Querier.  A call is a     *)
(* sequence of steps: the statement-cache lookup, compilation and the      *)
(* driver query; the Scan of each row; the append of each row (ForMany);   *)
(* the statement-cache write and the return.  pc and fnOut hold, for each  *)
(* goroutine, its position and the locals of its call.                     *)
(***************************************************************************)

MaxConcRows == 2

Goroutines == {1, 2}

\* The destination each goroutine hands to ForMany and to ForOne.
ConcSlice(g) == IF g = 1 THEN "s1" ELSE "s2"
ConcRecord(g) == IF g = 1 THEN "d1" ELSE "d2"

StmtEntity == <<"A", "S", " ", "&", "P">>

ConcStmts == {StmtPlain, StmtEntity}

\* The cursor of goroutine g: columns a and n, row k holding 10 * g + k.
ConcResults(g) ==
    {[fail |-> "none", columns |-> <<Column(ColA), Column(ColN)>>,
      rows |-> [k \in 1..n |-> [i \in 1..2 |-> 10 * g + k]]] :
       n \in 0..MaxConcRows}

InitConcurrent ==
    /\ pc = [g \in Goroutines |-> "idle"]
    /\ fnIn = None
    /\ fnOut = [g \in Goroutines |-> None]
    /\ QuerierInit

ConcForMany(g) ==
    /\ g \notin DOMAIN queries
    /\ ForMany(g, <<ConcSlice(g)>>)

ConcForOne(g) ==
    /\ g \notin DOMAIN queries
    /\ ForOne(g, <<ConcRecord(g)>>)

\* The records the statement is compiled and mapped against.
planEntities(q) ==
    IF q.plan = "slice" THEN [k \in 1..Len(q.refSlice) |-> q.refSlice[k].element]
    ELSE q.entities

\* The locals of a call after its first step.
callLocals(q, stmt, drv, compiled, run, mapping) ==
    [plan |-> q.plan, stmt |-> stmt, drv |-> drv, compiled |-> compiled, k |-> 1,
     columnar |-> mapping.columnar,
     err |-> IF compiled.err # "" THEN compiled.err
             ELSE IF run.err # "" THEN run.err
             ELSE IF mapping.panic THEN "panic" ELSE mapping.err]

\* The start of structScan and sliceStructScan: stmtCache.Get (structScan
\* only) or compileStatement, then Query.query and structMapping.
ConcBegin(g, stmt, drv) ==
    /\ pc[g] = "idle"
    /\ g \in DOMAIN queries
    /\ \E q \in {queries[g].q} :
        \E compiled \in {IF q.plan = "struct" /\ stmt \in DOMAIN stmtCache
                          THEN [stmt |-> stmtCache[stmt].stmt,
                                fields |-> stmtCache[stmt].fields, err |-> ""]
                          ELSE compileStatement(stmt, planEntities(q))} :
        \E run \in {query(q, compiled.stmt, <<>>, drv)} :
        \E mapping \in {structMapping([i \in 1..Len(run.columns) |->
                                          run.columns[i].name],
                                       planEntities(q), compiled.fields)} :
        \E locals \in {callLocals(q, stmt, drv, compiled, run, mapping)} :
            /\ fnOut' = [fnOut EXCEPT ![g] = locals]
            /\ pc' = [pc EXCEPT ![g] = IF locals.err # "" THEN "done" ELSE "rows"]
            /\ events' = events \o run.events
    /\ UNCHANGED <<fnIn, reflectCache, stmtCache, hook, queries, dests, lastCall,
                   copy>>

\* rows.Next and rows.Scan of the next row.
ConcScan(g) ==
    /\ pc[g] = "rows"
    /\ fnOut[g].k <= Len(fnOut[g].drv.rows)
    /\ dests' = scanRow(dests, fnOut[g].columnar, fnOut[g].drv.rows[fnOut[g].k], 1)
    /\ IF fnOut[g].plan = "slice"
       THEN pc' = [pc EXCEPT ![g] = "append"] /\ UNCHANGED fnOut
       ELSE fnOut' = [fnOut EXCEPT ![g].k = @ + 1] /\ UNCHANGED pc
    /\ UNCHANGED <<fnIn, reflectCache, stmtCache, hook, queries, events, lastCall,
                   copy>>

\* The loop of sliceStructScan that appends the element to each slice.
ConcAppend(g) ==
    /\ pc[g] = "append"
    /\ dests' = appendElements(dests, queries[g].q.refSlice, 1)
    /\ fnOut' = [fnOut EXCEPT ![g].k = @ + 1]
    /\ pc' = [pc EXCEPT ![g] = "rows"]
    /\ UNCHANGED <<fnIn, reflectCache, stmtCache, hook, queries, events, lastCall,
                   copy>>

\* The end of the rows: rows.Close, stmtCache.Set when structScan compiled a
\* different text, and the return.
ConcEnd(g) ==
    /\ pc[g] = "rows"
    /\ fnOut[g].k > Len(fnOut[g].drv.rows)
    /\ stmtCache' =
         IF fnOut[g].plan = "struct" /\ fnOut[g].stmt # fnOut[g].compiled.stmt
         THEN [t \in DOMAIN stmtCache \cup {fnOut[g].stmt} |->
                 IF t = fnOut[g].stmt
                 THEN [stmt |-> fnOut[g].compiled.stmt,
                       fields |-> fnOut[g].compiled.fields]
                 ELSE stmtCache[t]]
         ELSE stmtCache
    /\ events' = Append(events, CloseEvent)
    /\ pc' = [pc EXCEPT ![g] = "done"]
    /\ UNCHANGED <<fnIn, fnOut, reflectCache, hook, queries, dests, lastCall, copy>>

NextConcurrent ==
    \E g \in Goroutines :
        \/ ConcForMany(g)
        \/ ConcForOne(g)
        \/ \E stmt \in ConcStmts, drv \in ConcResults(g) : ConcBegin(g, stmt, drv)
        \/ ConcScan(g)
        \/ ConcAppend(g)
        \/ ConcEnd(g)

SpecConcurrent == InitConcurrent /\ [][NextConcurrent]_vars

\* Both calls returned without error, their Query values made the same way.
BothReturned ==
    /\ \A g \in Goroutines :
          pc[g] = "done" /\ fnOut[g] # None /\ fnOut[g].err = ""
    /\ \A g, h \in Goroutines : queries[g].q.plan = queries[h].q.plan

\* The rows of a cursor as records, in cursor order.
RecordsOf(drv) ==
    [i \in 1..Len(drv.rows) |->
       [c \in ColumnNames(drv) |->
          drv.rows[i][CHOOSE j \in 1..Len(drv.columns) : drv.columns[j].name = c]]]

\* What the destination of goroutine g holds after its call alone: the
\* rows of its cursor (ForMany), the last row or the zero value (ForOne).
OwnRows(g) ==
    IF fnOut[g].plan = "slice" THEN RecordsOf(fnOut[g].drv)
    ELSE IF fnOut[g].drv.rows = <<>> THEN ZeroValue(queries[g].values[1])
    ELSE RecordsOf(fnOut[g].drv)[Len(fnOut[g].drv.rows)]

\* C24: two Query calls running concurrently on one Querier, made by
\* ForMany (or ForOne) with distinct destinations of the same record type,
\* do not interfere: in every interleaving the destination of each call
\* ends up holding exactly the rows of its own cursor, in cursor order.
ConcurrentQueriesDoNotInterfere ==
    BothReturned =>
        \A g \in Goroutines : dests[queries[g].values[1]] = OwnRows(g)

====
